---- MODULE Spec2Model ----
(***************************************************************************)
(* A model of the structural diff engine of mdb-python3-api:               *)
(* src/mdb/tools/diff_calculator.py (classes Diff and Differ).             *)
(*                                                                         *)
(* A Differ object holds two records (existing, modified), four pairs of   *)
(* pluggable comparators, an ignore set and a Diff aggregate with the      *)
(* three mappings Added, Modified and Removed.                             *)
(*                                                                         *)
(* Encoding of Python values                                               *)
(*  - a top-level scalar value is a record [t, s, n]: its type tag, its    *)
(*    string payload and its numeric payload;                              *)
(*  - a collection item (a dict) is a record of its keys; a key that is    *)
(*    absent reads as None through dict.get, and is the string None here;  *)
(*    the item with every key absent is the empty dict {} (falsy);         *)
(*  - an entry of a list held by the Diff is <<item>>, or <<>> for the     *)
(*    Python value None;                                                   *)
(*  - a top-level record is [attrs |-> key -> value, and one sequence per  *)
(*    tracked collection]; an absent collection reads as the empty list    *)
(*    (dict.get(field, [])).                                               *)
(*                                                                         *)
(* The module also models the dedup fixup of a record before it is sent    *)
(* (src/mdbclient/tools/eo_fixup.py, specification FixupSpec) and the      *)
(* application of a Diff onto a record (specification ApplySpec).          *)
(***************************************************************************)
EXTENDS Integers, Sequences, FiniteSets, TLC

VARIABLES existing, modified, comparators, ignorables, diff, calls,
          pe, pe_in, outcome,
          target, ops, before, fields,
          last_call, result, explained, resid, parsed

\* The Differ object and its Diff.
differVars == <<existing, modified, comparators, ignorables, diff, calls>>

\* The record handed to remove_duplicates, its content before the call and
\* how the call ended.
fixupVars == <<pe, pe_in, outcome>>

\* The record a Diff is applied onto, the operations applied so far (after
\* calculate), the diff and the record before the last of them, and the
\* allow-list of the last retain_only.
applyVars == <<target, ops, before, fields>>

\* The last operation called on the Diff and how it ended.
elimVars == <<last_call>>

\* The FieldDiffResult a function of diff_functions has returned, and the
\* outcome of rendering it or of rendering the Diff.
functionVars == <<result, explained>>

\* The resource id string handed to parse_res_id and what the call and the
\* as_resid() call on its result gave.
idVars == <<resid, parsed>>

vars == <<differVars, fixupVars, applyVars, elimVars, functionVars, idVars>>

\* ------------------------------------------------------------------ bounds

\* Longest collection of a record.
MaxItems == 2

\* Number of times calculate() is called on one Differ.
MaxCalls == 2

\* ------------------------------------------------------------ Python values

None == "None"

Str(x) == [t |-> "str", s |-> x, n |-> 0]

PyInt(i) == [t |-> "int", s |-> "", n |-> i]

PyFloat(i) == [t |-> "float", s |-> "", n |-> i]

\* A list of i truthy elements; PyList(0) is the empty list.
PyList(i) == [t |-> "list", s |-> "", n |-> i]

IsNumber(v) == v.t \in {"int", "float", "bool"}

\* Python's == on top-level values: numbers compare by value across int,
\* float and bool; everything else compares within its own type.
PyEq(a, b) == IF IsNumber(a) /\ IsNumber(b) THEN a.n = b.n ELSE a = b

\* Truthiness of a string or None (None and "" are falsy).
TruthyStr(x) == x /= None /\ x /= ""

\* Truthiness of a coordinate (a float written as its literal) or None:
\* None and 0.0 are falsy.
TruthyNum(x) == x /= None /\ x /= "0.0"

Some(x) == <<x>>

NoneEntry == <<>>

Fields == {"contributors", "categories", "subjects", "spatials"}

NoContact == [title |-> None, characterName |-> None, comment |-> None, capacity |-> None]

NoRole == [resId |-> None, title |-> None]

NoStadnamn == [resId |-> None]

\* The empty dict {} of each collection.
EmptyItem(field) ==
    CASE field = "contributors" -> [resId |-> None, contact |-> NoContact, role |-> NoRole]
      [] field = "categories" -> [resource |-> None, title |-> None]
      [] field = "subjects" -> [resId |-> None, title |-> None]
      [] field = "spatials" -> [resId |-> None, stadnamn |-> NoStadnamn, name |-> None,
                                latitude |-> None, longitude |-> None]

\* Truthiness of a list entry: None and {} are falsy.
Truthy(field, entry) == entry /= NoneEntry /\ entry[1] /= EmptyItem(field)

\* ------------------------------------------------------------- comparators

are_same_coordinate(e, coord) ==
    IF ~TruthyNum(e) /\ ~TruthyNum(coord) THEN TRUE
    ELSE IF ~TruthyNum(e) \/ ~TruthyNum(coord) THEN FALSE
    ELSE e = coord

are_same_lat_lon(p1, p2) ==
    /\ are_same_coordinate(p1.latitude, p2.latitude)
    /\ are_same_coordinate(p1.longitude, p2.longitude)

are_same_spatial(e, coord_) ==
    IF TruthyStr(e.name) /\ e.name = coord_.name THEN TRUE
    ELSE IF TruthyStr(e.name) /\ e.name /= coord_.name THEN FALSE
    ELSE are_same_lat_lon(e, coord_)

\* existing_meo.get("spatials", []): a spatial item has no key "spatials".
NestedSpatials(item) == <<>>

has_same_spatial(existing_meo, coord_) ==
    SelectSeq(NestedSpatials(existing_meo), LAMBDA x: are_same_spatial(x, coord_))

spatial_value_identity_comparator(o, m) == are_same_spatial(o, m)

spatial_mixed_identity_comparator(o, m) ==
    IF TruthyStr(o.resId) THEN o.resId = m.resId
    ELSE spatial_value_identity_comparator(o, m)

\* lat is read from "longitude" too, as in the source.
is_spatial(spatial) ==
    LET lon == spatial.longitude
        lat == spatial.longitude
    IN  TruthyStr(spatial.name) \/ (TruthyNum(lat) /\ TruthyNum(lon))

spatial_value_equals(e, s) ==
    /\ is_spatial(s)
    /\ has_same_spatial(e, s) = <<>>
    /\ e.stadnamn.resId = s.stadnamn.resId

category_reference_equals(e, m) == e.resource = m.resource

category_value_equals(e, m) == e.title = m.title

subject_value_equals(cat, subject) == cat.title = subject.title

subject_mixed_identity_comparator(o, m) ==
    IF TruthyStr(o.resId) THEN o.resId = m.resId
    ELSE subject_value_equals(o, m)

contributor_value_based_identity(c1, c2) ==
    /\ c1.contact.title = c2.contact.title
    /\ c1.role.title = c2.role.title

contributor_value_equals(c1, c2) ==
    /\ c1.contact.title = c2.contact.title
    /\ c1.contact.characterName = c2.contact.characterName
    /\ c1.contact.comment = c2.contact.comment
    /\ c1.contact.capacity = c2.contact.capacity
    /\ c1.role.resId = c2.role.resId
    /\ c1.role.title = c2.role.title

\* A comparator attribute of the Differ holds the name of a function; calling
\* the attribute calls that function.
Compare(comparator, a, b) ==
    CASE comparator = "category_reference_equals" -> category_reference_equals(a, b)
      [] comparator = "category_value_equals" -> category_value_equals(a, b)
      [] comparator = "contributor_value_based_identity" -> contributor_value_based_identity(a, b)
      [] comparator = "contributor_value_equals" -> contributor_value_equals(a, b)
      [] comparator = "subject_value_equals" -> subject_value_equals(a, b)
      [] comparator = "subject_mixed_identity_comparator" -> subject_mixed_identity_comparator(a, b)
      [] comparator = "spatial_value_identity_comparator" -> spatial_value_identity_comparator(a, b)
      [] comparator = "spatial_mixed_identity_comparator" -> spatial_mixed_identity_comparator(a, b)
      [] comparator = "spatial_value_equals" -> spatial_value_equals(a, b)

\* The comparators a new Differ is given.
DefaultComparators ==
    [contributors |-> [identity |-> "contributor_value_based_identity",
                       value |-> "contributor_value_equals"],
     categories |-> [identity |-> "category_reference_equals",
                     value |-> "category_value_equals"],
     subjects |-> [identity |-> "subject_value_equals",
                   value |-> "subject_value_equals"],
     spatials |-> [identity |-> "spatial_value_identity_comparator",
                   value |-> "spatial_value_equals"]]

DefaultIgnorables == {"title", "shortDescription", "published", "embeddingAllowed", "duration"}

\* ---------------------------------------------------------------- class Diff

NoEntries == [k \in {} |-> 0]

\* One of the three mappings of a Diff: its scalar entries (key -> value) and
\* its collection entries (field -> list of entries).
EmptyMapping == [attrs |-> NoEntries, colls |-> NoEntries]

\* Diff.__init__
NewDiff == [Added |-> EmptyMapping, Removed |-> EmptyMapping, Modified |-> EmptyMapping]

\* dict_[k] = v
Put(dict_, k, v) == [x \in (DOMAIN dict_) \cup {k} |-> IF x = k THEN v ELSE dict_[x]]

\* dict_.get(k, [])
GetList(dict_, k) == IF k \in DOMAIN dict_ THEN dict_[k] ELSE <<>>

\* The loop shared by add_to_added, add_to_removed and add_to_modified, on the
\* mapping it writes: the list is created on the first element and every
\* element is appended.
add_to(mapping, name, elements) ==
    IF elements = <<>> THEN mapping
    ELSE [mapping EXCEPT !.colls = Put(mapping.colls, name, GetList(mapping.colls, name) \o elements)]

add_to_added(d, name, elements) == [d EXCEPT !.Added = add_to(d.Added, name, elements)]

add_to_removed(d, name, elements) == [d EXCEPT !.Removed = add_to(d.Removed, name, elements)]

add_to_modified(d, name, elements) == [d EXCEPT !.Modified = add_to(d.Modified, name, elements)]

IsEmptyMapping(mapping) == DOMAIN mapping.attrs = {} /\ DOMAIN mapping.colls = {}

\* Truthiness of the value has_diff returns.
has_diff(d) == ~IsEmptyMapping(d.Modified) \/ ~IsEmptyMapping(d.Added) \/ ~IsEmptyMapping(d.Removed)

\* has_removals_only without the test of Added
has_removals_only_modified_only(d) == IsEmptyMapping(d.Modified) /\ ~IsEmptyMapping(d.Removed)

\* Truthiness of the value has_removals_only returns.
has_removals_only(d) ==
    (IsEmptyMapping(d.Modified) /\ IsEmptyMapping(d.Added)) /\ ~IsEmptyMapping(d.Removed)

\* Truthiness of the value has_add_modify_diff returns.
has_add_modify_diff(d) == ~IsEmptyMapping(d.Modified) \/ ~IsEmptyMapping(d.Added)

\* [x for x in v if x] of a top-level list value: PyList(n) holds n truthy
\* elements.
TruthyElements(v) == v.n

\* Diff.__pack_change: the keys whose value is a list without a truthy
\* element are deleted; a value that is not a list stays.
pack_change(dict_) ==
    LET dead_attrs == {k \in DOMAIN dict_.attrs :
                          dict_.attrs[k].t = "list" /\ TruthyElements(dict_.attrs[k]) = 0}
        dead_colls == {k \in DOMAIN dict_.colls :
                          \A i \in 1..Len(dict_.colls[k]) : ~Truthy(k, dict_.colls[k][i])}
    IN  [attrs |-> [k \in (DOMAIN dict_.attrs) \ dead_attrs |-> dict_.attrs[k]],
         colls |-> [k \in (DOMAIN dict_.colls) \ dead_colls |-> dict_.colls[k]]]

\* Diff.pack
pack(d) ==
    [Added |-> pack_change(d.Added),
     Modified |-> pack_change(d.Modified),
     Removed |-> pack_change(d.Removed)]

\* -------------------------------------------------------------- class Differ

\* original.items(): the scalar keys and the keys of the collections.
Items(r) ==
    [k \in (DOMAIN r.attrs) \cup {f \in Fields : r[f] /= <<>>} |->
        IF k \in Fields THEN PyList(0) ELSE r.attrs[k]]

is_ignorable(ign, attr_name) == attr_name \in ign

should_process(ign, attr_name) ==
    /\ attr_name /= "resId"
    /\ attr_name /= "created"
    /\ attr_name /= "lastUpdated"
    /\ ~is_ignorable(ign, attr_name)

\* is_modified without the comparison of the two values
is_modified_present(o, m, k) == k \in DOMAIN o /\ k \in DOMAIN m

is_modified(o, m, k) == k \in DOMAIN o /\ k \in DOMAIN m /\ ~PyEq(m[k], o[k])

is_accepted_type(v) == v.t = "str" \/ v.t \in {"int", "bool"} \/ v.t = "float"

\* self.diff.X[key] = source[key] for every key of keys
PutAll(mapping, keys, source) ==
    [mapping EXCEPT !.attrs = [x \in (DOMAIN mapping.attrs) \cup keys |->
                                  IF x \in keys THEN source[x] ELSE mapping.attrs[x]]]

attribute_changes(d, ign, exist, modif) ==
    LET o == Items(exist)
        m == Items(modif)
        mods == {k \in DOMAIN o : should_process(ign, k) /\ is_accepted_type(o[k]) /\ is_modified(o, m, k)}
        adds == {k \in DOMAIN m : should_process(ign, k) /\ k \notin DOMAIN o /\ is_accepted_type(m[k])}
        rems == {k \in DOMAIN o : k \notin DOMAIN m /\ is_accepted_type(o[k]) /\ should_process(ign, k)}
    IN  [Modified |-> PutAll(d.Modified, mods, m),
         Added |-> PutAll(d.Added, adds, m),
         Removed |-> PutAll(d.Removed, rems, o)]

\* A predicate handed to find: <<name>> is the comparator of that name,
\* <<"is_updated_x", ref, value>> is the closure is_updated_x over the two
\* predicates of handle_collections.
\* is_updated_x without the value comparison
is_updated_x_ref_only(ref_equality_predicate, value_equality_predicate, ex, modified_) ==
    Compare(ref_equality_predicate, ex, modified_)

is_updated_x(ref_equality_predicate, value_equality_predicate, ex, modified_) ==
    /\ Compare(ref_equality_predicate, ex, modified_)
    /\ ~Compare(value_equality_predicate, ex, modified_)

Call(predicate, a, b) ==
    IF predicate[1] = "is_updated_x" THEN is_updated_x(predicate[2], predicate[3], a, b)
    ELSE Compare(predicate[1], a, b)

find(collection, comparator, modified_) ==
    SelectSeq(collection, LAMBDA cat: Call(comparator, cat, modified_))

has_valued_element(field, coll) == SelectSeq(coll, LAMBDA x: Truthy(field, x))

\* [f(x) for x in coll], f given as a function on the indices of coll
Comprehension(coll, f) == IF coll = <<>> THEN <<>> ELSE [i \in 1..Len(coll) |-> f[i]]

\* added_items with the comparator called as (modified item, existing item)
added_items_swapped(existing_collection, modified_collection, ref_equality_predicate) ==
    LET unmatched == SelectSeq(modified_collection,
                         LAMBDA c: \A i \in 1..Len(existing_collection) :
                                       ~Compare(ref_equality_predicate, c, existing_collection[i]))
    IN  Comprehension(unmatched, [i \in 1..Len(unmatched) |-> Some(unmatched[i])])

\* added_items of handle_collections
added_items(existing_collection, modified_collection, ref_equality_predicate) ==
    LET unmatched == SelectSeq(modified_collection,
                         LAMBDA c: find(existing_collection, <<ref_equality_predicate>>, c) = <<>>)
    IN  Comprehension(unmatched, [i \in 1..Len(unmatched) |-> Some(unmatched[i])])

\* modified_items of handle_collections
modified_items(existing_collection, modified_collection, ref_equality_predicate, value_equality_predicate) ==
    LET updated == <<"is_updated_x", ref_equality_predicate, value_equality_predicate>>
    IN  Comprehension(existing_collection,
            [i \in 1..Len(existing_collection) |->
                LET modified_elem == existing_collection[i]
                    found == find(modified_collection, updated, modified_elem)
                IN  IF found /= <<>> THEN Some(found[1]) ELSE NoneEntry])

\* removed_items without the None placeholders of the matched items
removed_items_compact(existing_collection, modified_collection, ref_equality_predicate) ==
    LET gone == SelectSeq(existing_collection,
                    LAMBDA ex: find(modified_collection, <<ref_equality_predicate>>, ex) = <<>>)
    IN  Comprehension(gone, [i \in 1..Len(gone) |-> Some(gone[i])])

\* removed_items of handle_collections
removed_items(existing_collection, modified_collection, ref_equality_predicate) ==
    Comprehension(existing_collection,
        [i \in 1..Len(existing_collection) |->
            LET ex == existing_collection[i]
            IN  IF find(modified_collection, <<ref_equality_predicate>>, ex) = <<>>
                THEN Some(ex) ELSE NoneEntry])

handle_collections(d, exist, modif, field, ref_equality_predicate, value_equality_predicate) ==
    LET existing_collection == exist[field]
        modified_collection == modif[field]
        added == added_items(existing_collection, modified_collection, ref_equality_predicate)
        d1 == IF has_valued_element(field, added) /= <<>>
              THEN add_to_added(d, field, added) ELSE d
        updated == modified_items(existing_collection, modified_collection,
                                  ref_equality_predicate, value_equality_predicate)
        d2 == IF has_valued_element(field, updated) /= <<>>
              THEN add_to_modified(d1, field, updated) ELSE d1
        removed == removed_items(existing_collection, modified_collection, ref_equality_predicate)
    IN  IF has_valued_element(field, removed) /= <<>>
        THEN add_to_removed(d2, field, removed) ELSE d2

apply_changes_editorial_object_collections(d, cmp, exist, modif) ==
    LET d1 == handle_collections(d, exist, modif, "contributors",
                                 cmp.contributors.identity, cmp.contributors.value)
        d2 == handle_collections(d1, exist, modif, "categories",
                                 cmp.categories.identity, cmp.categories.value)
        d3 == handle_collections(d2, exist, modif, "subjects",
                                 cmp.subjects.identity, cmp.subjects.value)
    IN  handle_collections(d3, exist, modif, "spatials",
                           cmp.spatials.identity, cmp.spatials.value)

calculate(d, cmp, ign, exist, modif) ==
    apply_changes_editorial_object_collections(attribute_changes(d, ign, exist, modif), cmp, exist, modif)

\* calculate that takes the collections out of the two records
\* (dict.pop(field, [])) where the source reads them (dict.get(field, []))
Differ_calculate_popping(self) ==
    [self EXCEPT !.diff = calculate(self.diff, self.comparators, self.ignorables,
                                    self.existing, self.modified),
                 !.existing = [contributors |-> <<>>, categories |-> <<>>, subjects |-> <<>>,
                               spatials |-> <<>>, attrs |-> self.existing.attrs],
                 !.modified = [contributors |-> <<>>, categories |-> <<>>, subjects |-> <<>>,
                               spatials |-> <<>>, attrs |-> self.modified.attrs]]

\* Differ.calculate() as a step of the Differ object self: attribute_changes
\* and handle_collections read self.existing and self.modified (items(),
\* get(), copies made with list()) and hand their values to the Diff; the
\* only attribute they write is self.diff.
Differ_calculate(self) ==
    [self EXCEPT !.diff = calculate(self.diff, self.comparators, self.ignorables,
                                    self.existing, self.modified)]

\* ------------------------------------------------------------------- inputs

Contributor(resId, title, characterName, roleResId, roleTitle) ==
    [resId |-> resId,
     contact |-> [title |-> title, characterName |-> characterName,
                  comment |-> IF title = None THEN None ELSE "aContactComment",
                  capacity |-> IF title = None THEN None ELSE "Contactcapacity"],
     role |-> [resId |-> roleResId, title |-> roleTitle]]

Spatial(resId, stadnamn, name, latitude, longitude) ==
    [resId |-> resId, stadnamn |-> [resId |-> stadnamn], name |-> name,
     latitude |-> latitude, longitude |-> longitude]

\* The items a collection of each field is made of.
ItemsOf(field) ==
    CASE field = "contributors" ->
            {Contributor(None, "ole olsen", "abc_org", None, None),
             Contributor("http://org1", "ole olsen", "abc_mod", None, None),
             Contributor(None, "fredf", "abc", None, None),
             Contributor(None, "ole olsen", "abc_org", "http://authority.nrk.no/role/V23", "Regi")}
      [] field = "categories" ->
            {[resource |-> "c1", title |-> None],
             [resource |-> "c2", title |-> None],
             [resource |-> "c2", title |-> "ol"],
             [resource |-> "c2", title |-> "vold"]}
      [] field = "subjects" ->
            {[resId |-> "http://s1", title |-> "sub1"],
             [resId |-> "http://s1", title |-> "subX"],
             [resId |-> None, title |-> "sub2"],
             EmptyItem("subjects")}
      [] field = "spatials" ->
            {Spatial("http://xx.nrk.no/a/b/zz", "http://stadnamn.nrk.no/a/b/c", "Oslo", "7.123", "-1.456"),
             Spatial("http://xx.nrk.no/a/b/z2", "http://stadnamn.nrk.no/a/b/c", "Oslo", "7.123", "-1.456"),
             Spatial("http://xx.nrk.no/NOTSAMEs", "http://stadnamn.nrk.no/a/b/FTYEFTE", "Oslo", "7.123", "-1.456"),
             Spatial(None, "http://stadnamn.nrk.no/a/b/c", None, "7.123", "-1.456"),
             Spatial("http://xx.nrk.no/a/b/z0", "http://stadnamn.nrk.no/a/b/c", None, "7.123", "0.0")}

\* The sequences over S of length at most n.
SeqsUpTo(S, n) == UNION {[1..k -> S] : k \in 0..n}

\* The values each top-level scalar key takes.
AttrValues(k) ==
    CASE k = "title" -> {Str("foo")}
      [] k = "baz" -> {Str("bazt"), Str("bazz"), PyInt(1), PyFloat(1), PyList(1), PyList(0)}
      [] k = "fizz" -> {Str("buzz"), Str("")}
      [] k = "resId" -> {Str("http://org1")}

AttrKeys == {"title", "baz", "fizz", "resId"}

\* The mappings from some of the keys to one of their values.
AttrRecords ==
    UNION {{f \in [K -> UNION {AttrValues(k) : k \in K}] : \A k \in K : f[k] \in AttrValues(k)} :
           K \in SUBSET AttrKeys}

Record(attrs, field, coll) ==
    [attrs |-> attrs,
     contributors |-> IF field = "contributors" THEN coll ELSE <<>>,
     categories |-> IF field = "categories" THEN coll ELSE <<>>,
     subjects |-> IF field = "subjects" THEN coll ELSE <<>>,
     spatials |-> IF field = "spatials" THEN coll ELSE <<>>]

\* ------------------------------------------------------------ state machine

\* A record without the keys contributors and spatials.
NoPe == [contributors |-> NoneEntry, spatials |-> NoneEntry]

\* No remove_duplicates call is in progress or has been made.
FixupIdle == pe = NoPe /\ pe_in = NoPe /\ outcome = "none"

NoTarget == Record(NoEntries, "categories", <<>>)

\* No Diff has been applied onto a record.
ApplyIdle ==
    /\ target = NoTarget
    /\ ops = <<>>
    /\ before = [diff |-> NewDiff, target |-> NoTarget]
    /\ fields = {}

\* No operation has been called on the Diff since calculate().
NoCall == [op |-> "none", raised |-> FALSE]

ElimIdle == last_call = NoCall

\* A Python value held by an attribute of a FieldDiffResult, with its truth
\* value: <<v>> for the value v, <<>> for None.
Py(v, truthy) == [v |-> <<v>>, truthy |-> truthy]

PyNone == [v |-> <<>>, truthy |-> FALSE]

\* FieldDiffResult.__init__
FieldDiffResult(added, modified_, removed, field_name) ==
    [field_name |-> field_name, added |-> added, modified |-> modified_, removed |-> removed]

\* FieldDiffResult.unchanged
unchanged(field_name) == FieldDiffResult(PyNone, PyNone, PyNone, field_name)

\* Nothing has been rendered.
NotExplained == [call |-> "none", raised |-> FALSE, text |-> <<>>]

\* No function of diff_functions has been called.
FunctionsIdle == result = unchanged(None) /\ explained = NotExplained

\* parse_res_id has not been called.
NoObject == [kind |-> None, cls |-> None, base |-> None, guid |-> None]

NotParsed == [call |-> "none", raised |-> FALSE, obj |-> NoObject, text |-> None]

IdIdle == resid = "" /\ parsed = NotParsed

\* Differ.__init__(existing, modified), on two records of scalars or on two
\* records with one collection each.
Init ==
    /\ \/ \E a \in AttrRecords, b \in AttrRecords :
            /\ existing = Record(a, "categories", <<>>)
            /\ modified = Record(b, "categories", <<>>)
       \/ \E f \in Fields :
            \E x \in SeqsUpTo(ItemsOf(f), MaxItems), y \in SeqsUpTo(ItemsOf(f), MaxItems) :
                /\ existing = Record(NoEntries, f, x)
                /\ modified = Record(NoEntries, f, y)
    /\ comparators = DefaultComparators
    /\ ignorables = DefaultIgnorables
    /\ diff = NewDiff
    /\ calls = 0
    /\ FixupIdle
    /\ ApplyIdle
    /\ ElimIdle
    /\ FunctionsIdle
    /\ IdIdle

\* The identity comparators a client sets on a Differ in place of the default.
Overrides ==
    {<<"subjects", "subject_mixed_identity_comparator">>,
     <<"spatials", "spatial_mixed_identity_comparator">>}

\* differ.<field>_identity_comparator = <comparator>, set by the client
\* between the construction and calculate().
SetIdentityComparator ==
    /\ calls = 0
    /\ \E o \in Overrides : comparators' = [comparators EXCEPT ![o[1]].identity = o[2]]
    /\ UNCHANGED <<existing, modified, ignorables, diff, calls, fixupVars, applyVars, elimVars, functionVars, idVars>>

\* The Differ object, as the record of its attributes.
Self ==
    [existing |-> existing, modified |-> modified, comparators |-> comparators,
     ignorables |-> ignorables, diff |-> diff]

\* Differ.calculate()
Calculate ==
    /\ calls < MaxCalls
    /\ \E after \in {Differ_calculate(Self)} :
           /\ existing' = after.existing
           /\ modified' = after.modified
           /\ comparators' = after.comparators
           /\ ignorables' = after.ignorables
           /\ diff' = after.diff
    /\ calls' = calls + 1
    /\ UNCHANGED <<fixupVars, applyVars, elimVars, functionVars, idVars>>

\* Diff.pack(), called by the client on the diff of the Differ.
Pack ==
    /\ diff' = pack(diff)
    /\ UNCHANGED <<existing, modified, comparators, ignorables, calls, fixupVars, applyVars, elimVars, functionVars, idVars>>

Next == SetIdentityComparator \/ Calculate \/ Pack

Spec == Init /\ [][Next]_vars

\* ----------------------------------------------------------------- eo_fixup

\* An item as eo_fixup reads it: a contributor has a contact, a role and the
\* keys characterName, comment and capacity of its own; a spatial location has
\* name, latitude and longitude (a float written as its literal, which is
\* what str() gives). An absent key is None.
FixupContributor(title, roleResId, roleTitle, characterName) ==
    [contact |-> [title |-> title], role |-> [resId |-> roleResId, title |-> roleTitle],
     characterName |-> characterName, comment |-> "aContactComment",
     capacity |-> "Contactcapacity",
     name |-> None, latitude |-> None, longitude |-> None]

FixupSpatial(name, latitude, longitude) ==
    [contact |-> [title |-> None], role |-> [resId |-> None, title |-> None],
     characterName |-> None, comment |-> None, capacity |-> None,
     name |-> name, latitude |-> latitude, longitude |-> longitude]

\* dict.get(key, default): the value read, or the default for an absent key
GetOr(value, default) == IF value = None THEN default ELSE value

\* sub in s, on strings
Contains(s, sub) ==
    \E i \in 1..(Len(s) - Len(sub) + 1) : SubSeq(s, i, i + Len(sub) - 1) = sub

\* ":".join(elements)
Join(elements) ==
    LET joined[i \in 1..Len(elements)] ==
            IF i = 1 THEN elements[1] ELSE joined[i - 1] \o ":" \o elements[i]
    IN  IF elements = <<>> THEN "" ELSE joined[Len(elements)]

\* The result of a call: the value it returns, or the exception it raises.
Return(v) == [raised |-> FALSE, value |-> v]

\* __key
key(item) ==
    LET contact == item.contact
        role == item.role
        role_resid == GetOr(role.resId, "")
    IN  IF Contains(role_resid, "rest_client")
        THEN [raised |-> TRUE, value |-> ""]
        ELSE Return(Join(<<GetOr(contact.title, ""), GetOr(role.title, ""),
                           GetOr(item.characterName, ""), GetOr(item.comment, ""),
                           GetOr(item.capacity, "")>>))

\* _spatials_key
spatials_key(item) ==
    LET name == GetOr(item.name, "NNAME")
        lat == GetOr(item.latitude, "NLAT")
        lon == GetOr(item.longitude, "NLON")
    IN  Return(Join(<<name, lat, lon>>))

\* key_func(item), key_func given by its name
KeyOf(key_func, item) ==
    CASE key_func = "key" -> key(item)
      [] key_func = "spatials_key" -> spatials_key(item)

\* squash_by_key that keeps the last item of each key
squash_by_key_last(collection, key_func) ==
    LET n == Len(collection)
        keys == [i \in 1..n |-> KeyOf(key_func, collection[i])]
        kept == SelectSeq([i \in 1..n |-> i],
                          LAMBDA i: \A j \in (i + 1)..n : keys[j].value /= keys[i].value)
    IN  IF \E i \in 1..n : keys[i].raised
        THEN [raised |-> TRUE, value |-> <<>>]
        ELSE Return([p \in 1..Len(kept) |-> collection[kept[p]]])

\* squash_by_key: the loop over the collection, with seen and revised after
\* each item; an exception of key_func ends the loop.
squash_by_key(collection, key_func) ==
    LET n == Len(collection)
        loop[i \in 0..n] ==
            IF i = 0 THEN [seen |-> {}, revised |-> <<>>, raised |-> FALSE]
            ELSE LET at == loop[i - 1]
                     k == KeyOf(key_func, collection[i])
                 IN  IF at.raised THEN at
                     ELSE IF k.raised THEN [at EXCEPT !.raised = TRUE]
                     ELSE IF k.value \notin at.seen
                          THEN [seen |-> at.seen \cup {k.value},
                                revised |-> Append(at.revised, collection[i]),
                                raised |-> FALSE]
                          ELSE at
    IN  IF loop[n].raised THEN [raised |-> TRUE, value |-> <<>>]
        ELSE Return(loop[n].revised)

squash_byvalue_equal_contributors(contributors) == squash_by_key(contributors, "key")

squash_byvalue_equal_spatials(spatials) == squash_by_key(spatials, "spatials_key")

\* remove_duplicates that drops the duplicates from the list of the record
\* itself, item by item, where the source builds a new list and assigns it
remove_duplicates_in_place(pe_) ==
    LET cut(list) ==
            LET n == Len(list)
                bad == {i \in 1..n : key(list[i]).raised}
                stop == IF bad = {} THEN n + 1 ELSE CHOOSE i \in bad : \A j \in bad : i <= j
                head == squash_by_key(SubSeq(list, 1, stop - 1), "key").value
            IN  [raised |-> bad /= {}, value |-> head \o SubSeq(list, stop, n)]
        c == IF pe_.contributors = NoneEntry THEN Return(<<>>) ELSE cut(pe_.contributors[1])
        pe1 == IF pe_.contributors = NoneEntry THEN pe_
               ELSE [pe_ EXCEPT !.contributors = Some(c.value)]
        s_ == IF pe_.spatials = NoneEntry \/ c.raised THEN Return(<<>>) ELSE cut(pe1.spatials[1])
    IN  IF c.raised THEN [raised |-> TRUE, pe |-> pe1]
        ELSE IF pe_.spatials = NoneEntry THEN [raised |-> FALSE, pe |-> pe1]
        ELSE [raised |-> s_.raised, pe |-> [pe1 EXCEPT !.spatials = Some(s_.value)]]

\* remove_duplicates(pe): the record after the call and whether the call
\* raised. Each list is assigned once its squash has returned; the spatials
\* go through squash_byvalue_equal_contributors too, as in the source.
remove_duplicates(pe_) ==
    LET c == IF pe_.contributors = NoneEntry THEN Return(<<>>)
             ELSE squash_byvalue_equal_contributors(pe_.contributors[1])
        pe1 == IF pe_.contributors = NoneEntry \/ c.raised THEN pe_
               ELSE [pe_ EXCEPT !.contributors = Some(c.value)]
        s_ == IF pe_.spatials = NoneEntry \/ c.raised THEN Return(<<>>)
              ELSE squash_byvalue_equal_contributors(pe1.spatials[1])
    IN  IF c.raised THEN [raised |-> TRUE, pe |-> pe_]
        ELSE IF pe_.spatials = NoneEntry THEN [raised |-> FALSE, pe |-> pe1]
        ELSE IF s_.raised THEN [raised |-> TRUE, pe |-> pe1]
        ELSE [raised |-> FALSE, pe |-> [pe1 EXCEPT !.spatials = Some(s_.value)]]

\* Longest list of a record handed to remove_duplicates.
MaxPe == 3

\* The contributors and the spatial locations the lists of pe are made of.
FixupItems(field) ==
    CASE field = "contributors" ->
            {FixupContributor("ole olsen", "http://authority.nrk.no/role/V23", "aTitle", "abc"),
             FixupContributor("ole nilsen", "http://authority.nrk.no/role/V23", "aTitle", "abc"),
             FixupContributor("ole olsen", "http://authority.nrk.no/role/V23", "aTitle", "xxx"),
             FixupContributor("ole olsen", None, "aTitle", "abc"),
             FixupContributor("ole olsen", "http://id.nrk.no/2016/mdb/rest_client/role/1", "aTitle", "abc")}
      [] field = "spatials" ->
            {FixupSpatial("Oslo", "7.123", "-1.456"),
             FixupSpatial("Bergen", "60.39", "5.32"),
             FixupSpatial(None, "7.123", "-1.456")}

\* The lists a key of pe holds, and None for a pe without the key.
FixupLists(field) ==
    {NoneEntry} \cup {Some(list) : list \in SeqsUpTo(FixupItems(field), MaxPe)}

\* No Differ is at work: a Differ of two empty records.
DifferIdle ==
    /\ existing = NoTarget
    /\ modified = NoTarget
    /\ comparators = DefaultComparators
    /\ ignorables = DefaultIgnorables
    /\ diff = NewDiff
    /\ calls = 0

\* A record pe before it is sent.
FixupInit ==
    /\ \E c \in FixupLists("contributors"), s_ \in FixupLists("spatials") :
           pe = [contributors |-> c, spatials |-> s_]
    /\ pe_in = pe
    /\ outcome = "none"
    /\ DifferIdle
    /\ ApplyIdle
    /\ ElimIdle
    /\ FunctionsIdle
    /\ IdIdle

\* remove_duplicates(pe), on a new record or again on the record it has
\* returned from.
RemoveDuplicates ==
    /\ \E after \in {remove_duplicates(pe)} :
           /\ pe' = after.pe
           /\ outcome' = IF after.raised THEN "raised" ELSE "returned"
    /\ pe_in' = pe
    /\ UNCHANGED <<differVars, applyVars, elimVars, functionVars, idVars>>

FixupNext == RemoveDuplicates

FixupSpec == FixupInit /\ [][FixupNext]_vars

\* ------------------------------------------------------- applying a Diff

\* The operations of the Diff of mdbclient.tools.diff_calculator that patch a
\* record (sut) or filter the diff. The Diff has the three mappings of the
\* Diff above.

\* The positional merge of a Modified list into a list of the record: the
\* loop over the indices of the Modified list, with the list after each index.
merge_list(field, target_list, modified_list) ==
    LET loop[i \in 0..Len(modified_list)] ==
            IF i = 0 THEN target_list
            ELSE IF Truthy(field, modified_list[i])
                 THEN [loop[i - 1] EXCEPT ![i] = modified_list[i][1]]
                 ELSE loop[i - 1]
    IN  loop[Len(modified_list)]

\* recursive_apply_modifications that takes the Modified list for the list of
\* the record, None entries left out
recursive_apply_modifications_overwriting(d, sut) ==
    LET list(f) ==
            IF f \in DOMAIN d.Modified.colls
            THEN LET kept == SelectSeq(d.Modified.colls[f], LAMBDA e: e /= NoneEntry)
                 IN  IF kept = <<>> THEN <<>> ELSE [i \in 1..Len(kept) |-> kept[i][1]]
            ELSE sut[f]
    IN  [attrs |-> [k \in (DOMAIN sut.attrs) \cup (DOMAIN d.Modified.attrs) |->
                       IF k \in DOMAIN d.Modified.attrs THEN d.Modified.attrs[k]
                       ELSE sut.attrs[k]],
         contributors |-> list("contributors"),
         categories |-> list("categories"),
         subjects |-> list("subjects"),
         spatials |-> list("spatials")]

\* Diff.recursive_apply_modifications(sut): a Modified value that is a list is
\* merged into the list of the record index by index, any other Modified
\* value replaces the value of the record.
recursive_apply_modifications(d, sut) ==
    LET list(f) ==
            IF f \in DOMAIN d.Modified.colls
            THEN merge_list(f, sut[f], d.Modified.colls[f])
            ELSE sut[f]
    IN  [attrs |-> [k \in (DOMAIN sut.attrs) \cup (DOMAIN d.Modified.attrs) |->
                       IF k \in DOMAIN d.Modified.attrs THEN d.Modified.attrs[k]
                       ELSE sut.attrs[k]],
         contributors |-> list("contributors"),
         categories |-> list("categories"),
         subjects |-> list("subjects"),
         spatials |-> list("spatials")]

\* The items of a list of entries none of which is None.
Unwrap(entries) == IF entries = <<>> THEN <<>> ELSE [i \in 1..Len(entries) |-> entries[i][1]]

\* apply_adds that sets the list of the record to the added items
apply_adds_replacing(d, sut) ==
    LET list(f) ==
            IF f \in DOMAIN d.Added.colls THEN Unwrap(d.Added.colls[f]) ELSE sut[f]
    IN  [attrs |-> [k \in (DOMAIN sut.attrs) \cup (DOMAIN d.Added.attrs) |->
                       IF k \in DOMAIN d.Added.attrs THEN d.Added.attrs[k]
                       ELSE sut.attrs[k]],
         contributors |-> list("contributors"),
         categories |-> list("categories"),
         subjects |-> list("subjects"),
         spatials |-> list("spatials")]

\* Diff.apply_adds(sut): an Added list is appended to the list of the record
\* (which is empty when the record has none), any other Added value is set.
apply_adds(d, sut) ==
    LET list(f) ==
            IF f \in DOMAIN d.Added.colls THEN sut[f] \o Unwrap(d.Added.colls[f]) ELSE sut[f]
    IN  [attrs |-> [k \in (DOMAIN sut.attrs) \cup (DOMAIN d.Added.attrs) |->
                       IF k \in DOMAIN d.Added.attrs THEN d.Added.attrs[k]
                       ELSE sut.attrs[k]],
         contributors |-> list("contributors"),
         categories |-> list("categories"),
         subjects |-> list("subjects"),
         spatials |-> list("spatials")]

\* One mapping of a Diff cut down to the keys of an allow-list.
retain(mapping, names) ==
    [attrs |-> [k \in (DOMAIN mapping.attrs) \cap names |-> mapping.attrs[k]],
     colls |-> [k \in (DOMAIN mapping.colls) \cap names |-> mapping.colls[k]]]

\* retain_only that filters Added alone
retain_only_added(d, names) == [d EXCEPT !.Added = retain(d.Added, names)]

\* Diff.retain_only(fields)
retain_only(d, names) ==
    [Added |-> retain(d.Added, names),
     Modified |-> retain(d.Modified, names),
     Removed |-> retain(d.Removed, names)]

\* The collections of the records a Diff is applied onto.
ApplyFields == {"contributors", "subjects"}

\* The allow-lists handed to retain_only.
AllowLists == {{"title", "baz"}, {"fizz", "contributors"}}

\* The top-level keys of a record a Diff is applied onto hold scalars.
ScalarRecords == {a \in AttrRecords : \A k \in DOMAIN a : a[k].t /= "list"}

\* A Differ on two records and the record sut the diff will be applied onto:
\* a deep copy of the original record, or an empty record.
ApplyInit ==
    /\ \/ \E a \in ScalarRecords, b \in ScalarRecords :
            /\ existing = Record(a, "categories", <<>>)
            /\ modified = Record(b, "categories", <<>>)
       \/ \E f \in ApplyFields :
            \E x \in SeqsUpTo(ItemsOf(f), MaxItems), y \in SeqsUpTo(ItemsOf(f), MaxItems) :
                /\ existing = Record(NoEntries, f, x)
                /\ modified = Record(NoEntries, f, y)
    /\ comparators = DefaultComparators
    /\ ignorables = DefaultIgnorables
    /\ diff = NewDiff
    /\ calls = 0
    /\ FixupIdle
    /\ \/ target = existing /\ ops = <<"deepcopy">>
       \/ target = NoTarget /\ ops = <<>>
    /\ before = [diff |-> NewDiff, target |-> target]
    /\ fields = {}
    /\ ElimIdle
    /\ FunctionsIdle
    /\ IdIdle

\* changes = Differ(original, modified).calculate()
CalculateOnce == calls = 0 /\ Calculate

Applied(op) == \E i \in 1..Len(ops) : ops[i] = op

\* changes.retain_only(fields), before the diff is applied
RetainOnly ==
    /\ calls = 1
    /\ ~Applied("retain_only")
    /\ ~Applied("recursive_apply_modifications")
    /\ ~Applied("apply_adds")
    /\ \E names \in AllowLists :
           /\ diff' = retain_only(diff, names)
           /\ fields' = names
    /\ before' = [diff |-> diff, target |-> target]
    /\ ops' = Append(ops, "retain_only")
    /\ UNCHANGED <<existing, modified, comparators, ignorables, calls, target, fixupVars, elimVars, functionVars, idVars>>

\* diff.recursive_apply_modifications(sut), on a record that has the items the
\* Modified lists are aligned with
RecursiveApply ==
    /\ calls = 1
    /\ ~Applied("recursive_apply_modifications")
    /\ ~Applied("apply_adds")
    /\ \A f \in DOMAIN diff.Modified.colls : Len(diff.Modified.colls[f]) <= Len(target[f])
    /\ target' = recursive_apply_modifications(diff, target)
    /\ before' = [diff |-> diff, target |-> target]
    /\ ops' = Append(ops, "recursive_apply_modifications")
    /\ UNCHANGED <<differVars, fields, fixupVars, elimVars, functionVars, idVars>>

\* diff.apply_adds(sut)
ApplyAdds ==
    /\ calls = 1
    /\ ~Applied("apply_adds")
    /\ target' = apply_adds(diff, target)
    /\ before' = [diff |-> diff, target |-> target]
    /\ ops' = Append(ops, "apply_adds")
    /\ UNCHANGED <<differVars, fields, fixupVars, elimVars, functionVars, idVars>>

ApplyNext == CalculateOnce \/ RetainOnly \/ RecursiveApply \/ ApplyAdds

ApplySpec == ApplyInit /\ [][ApplyNext]_vars

\* ------------------------------------------- eliminating changes of a Diff

V23 == "http://authority.nrk.no/role/V23"

N58 == "http://authority.nrk.no/role/N58"

\* Diff.__indices_of_contributor_v23 and Diff.__indices_of_contributor_n58,
\* which differ in the role only: the indices of the truthy entries of
\* collection.get('contributors', []) whose role has that resId.
indices_of_contributor(collection, role) ==
    LET list == GetList(collection.colls, "contributors")
    IN  {idx \in 1..Len(list) :
            Truthy("contributors", list[idx]) /\ list[idx][1].role.resId = role}

\* for c in indices (reversed): del mapping['contributors'][c]
delete_indices(mapping, indices) ==
    LET list == GetList(mapping.colls, "contributors")
        kept[i \in 0..Len(list)] ==
            IF i = 0 THEN <<>>
            ELSE IF i \in indices THEN kept[i - 1] ELSE Append(kept[i - 1], list[i])
    IN  IF indices = {} THEN mapping
        ELSE [mapping EXCEPT !.colls = Put(mapping.colls, "contributors", kept[Len(list)])]

\* The body shared by eliminate_changed_v23 and eliminate_changed_n58: the
\* entries of that role are deleted from Added and from Removed, then pack().
eliminate_changed(d, role) ==
    pack([d EXCEPT !.Added = delete_indices(d.Added, indices_of_contributor(d.Added, role)),
                   !.Removed = delete_indices(d.Removed, indices_of_contributor(d.Removed, role))])

eliminate_changed_v23(d) == eliminate_changed(d, V23)

eliminate_changed_n58(d) == eliminate_changed(d, N58)

\* del mapping[name]
Del(mapping, name) ==
    [attrs |-> [k \in (DOMAIN mapping.attrs) \ {name} |-> mapping.attrs[k]],
     colls |-> [k \in (DOMAIN mapping.colls) \ {name} |-> mapping.colls[k]]]

\* name in mapping
In(name, mapping) == name \in (DOMAIN mapping.attrs) \cup (DOMAIN mapping.colls)

\* Diff.eliminiate_changed_categories: the second test reads the key
\* "modified"; del of a key that is absent raises KeyError and leaves the
\* deletions made before it.
eliminiate_changed_categories(d) ==
    LET d1 == IF In("categories", d.Added)
              THEN [d EXCEPT !.Added = Del(d.Added, "categories")] ELSE d
        d2 == IF In("modified", d1.Modified)
              THEN [d1 EXCEPT !.Modified = Del(d1.Modified, "categories")] ELSE d1
    IN  IF In("modified", d1.Modified) /\ ~In("categories", d1.Modified)
        THEN [raised |-> TRUE, diff |-> d1]
        ELSE [raised |-> FALSE,
              diff |-> IF In("categories", d2.Removed)
                       THEN [d2 EXCEPT !.Removed = Del(d2.Removed, "categories")] ELSE d2]

\* The contributors of the records of ElimSpec: two with the role V23 and the
\* same identity (contact title and role title), one with the role N58 and one
\* without a role.
ElimContributors ==
    {Contributor(None, "ole olsen", "abc", V23, None),
     Contributor(None, "ole olsen", "abc2", V23, None),
     Contributor(None, "kari", "abc", N58, None),
     Contributor(None, "fredf", "abc", None, None)}

\* The scalar keys of the records of ElimSpec: a key named modified or none.
ElimAttrs == {NoEntries} \cup {[k \in {"modified"} |-> Str(v)] : v \in {"a", "b"}}

\* Differ(original, modified) on two records of contributors, or on two
\* records of categories and scalars.
ElimInit ==
    /\ \/ \E x \in SeqsUpTo(ElimContributors, MaxItems), y \in SeqsUpTo(ElimContributors, MaxItems) :
            /\ existing = Record(NoEntries, "contributors", x)
            /\ modified = Record(NoEntries, "contributors", y)
       \/ \E a \in ElimAttrs, b \in ElimAttrs :
            \E x \in SeqsUpTo(ItemsOf("categories"), MaxItems),
               y \in SeqsUpTo(ItemsOf("categories"), MaxItems) :
                /\ existing = Record(a, "categories", x)
                /\ modified = Record(b, "categories", y)
    /\ comparators = DefaultComparators
    /\ ignorables = DefaultIgnorables
    /\ diff = NewDiff
    /\ calls = 0
    /\ FixupIdle
    /\ ApplyIdle
    /\ ElimIdle
    /\ FunctionsIdle
    /\ IdIdle

\* changes.eliminate_changed_v23()
EliminateV23 ==
    /\ calls = 1
    /\ diff' = eliminate_changed_v23(diff)
    /\ last_call' = [op |-> "eliminate_changed_v23", raised |-> FALSE]
    /\ UNCHANGED <<existing, modified, comparators, ignorables, calls,
                   fixupVars, applyVars, functionVars, idVars>>

\* changes.eliminate_changed_n58()
EliminateN58 ==
    /\ calls = 1
    /\ diff' = eliminate_changed_n58(diff)
    /\ last_call' = [op |-> "eliminate_changed_n58", raised |-> FALSE]
    /\ UNCHANGED <<existing, modified, comparators, ignorables, calls,
                   fixupVars, applyVars, functionVars, idVars>>

\* changes.pack()
PackChanges ==
    /\ calls = 1
    /\ diff' = pack(diff)
    /\ last_call' = [op |-> "pack", raised |-> FALSE]
    /\ UNCHANGED <<existing, modified, comparators, ignorables, calls,
                   fixupVars, applyVars, functionVars, idVars>>

\* changes.eliminiate_changed_categories()
EliminateCategories ==
    /\ calls = 1
    /\ \E after \in {eliminiate_changed_categories(diff)} :
           /\ diff' = after.diff
           /\ last_call' = [op |-> "eliminiate_changed_categories", raised |-> after.raised]
    /\ UNCHANGED <<existing, modified, comparators, ignorables, calls,
                   fixupVars, applyVars, functionVars, idVars>>

ElimNext ==
    CalculateOnce \/ EliminateV23 \/ EliminateN58 \/ PackChanges \/ EliminateCategories

ElimSpec == ElimInit /\ [][ElimNext]_vars

\* ------------------------------------------------------------ resource ids

\* The ResId classes in the order parse_res_id tries them.
ResIdClasses ==
    <<"BagResId", "SerieResId", "SeasonResId", "MasterEOResourceResId", "MasterEOResId",
      "PublicationEventResId", "PublicationMediaObjectResId", "MediaObjectResId",
      "MediaResourceResId", "EssenceResId", "VersionGroupResId", "TimelineResId">>

\* The class attribute BASE of each ResId class.
BASE(cls) ==
    CASE cls = "BagResId" -> "http://id.nrk.no/2016/mdb/bag"
      [] cls = "SerieResId" -> "http://id.nrk.no/2016/mdb/serie"
      [] cls = "SeasonResId" -> "http://id.nrk.no/2016/mdb/season"
      [] cls = "MasterEOResourceResId" -> "http://id.nrk.no/2016/mdb/masterEOResource"
      [] cls = "MasterEOResId" -> "http://id.nrk.no/2016/mdb/masterEO"
      [] cls = "PublicationEventResId" -> "http://id.nrk.no/2016/mdb/publicationEvent"
      [] cls = "PublicationMediaObjectResId" -> "http://id.nrk.no/2016/mdb/publicationMediaObject"
      [] cls = "MediaObjectResId" -> "http://id.nrk.no/2016/mdb/mediaObject"
      [] cls = "MediaResourceResId" -> "http://id.nrk.no/2016/mdb/mediaResource"
      [] cls = "EssenceResId" -> "http://id.nrk.no/2016/mdb/essence"
      [] cls = "VersionGroupResId" -> "http://id.nrk.no/2016/mdb/versionGroup"
      [] cls = "TimelineResId" -> "http://id.nrk.no/2017/mdb/timeline"

\* XResId.matches(resid): resid.startswith(XResId.BASE)
matches(cls, resid_) ==
    Len(resid_) >= Len(BASE(cls)) /\ SubSeq(resid_, 1, Len(BASE(cls))) = BASE(cls)

\* try_uuid(val): str(UUID(val)) when val is 32 hexadecimal digits once its
\* hyphens are taken out (the digits in lower case, hyphenated 8-4-4-4-12),
\* and val itself when UUID(val) raises ValueError.
try_uuid(val) ==
    LET Lower(c) == CASE c = "A" -> "a" [] c = "B" -> "b" [] c = "C" -> "c"
                      [] c = "D" -> "d" [] c = "E" -> "e" [] c = "F" -> "f"
                      [] OTHER -> c
        IsHex(c) == \E d \in {"0", "1", "2", "3", "4", "5", "6", "7", "8", "9",
                              "a", "b", "c", "d", "e", "f"} : Lower(c) = d
        hex[i \in 0..Len(val)] ==
            IF i = 0 THEN ""
            ELSE IF SubSeq(val, i, i) = "-" THEN hex[i - 1]
            ELSE hex[i - 1] \o Lower(SubSeq(val, i, i))
        digits == hex[Len(val)]
    IN  IF Len(digits) = 32 /\ \A i \in 1..32 : IsHex(SubSeq(digits, i, i))
        THEN SubSeq(digits, 1, 8) \o "-" \o SubSeq(digits, 9, 12) \o "-" \o
             SubSeq(digits, 13, 16) \o "-" \o SubSeq(digits, 17, 20) \o "-" \o
             SubSeq(digits, 21, 32)
        ELSE val

\* XResId.parse(res_id_string): os.path.split cuts the string at its last
\* slash (the head loses its trailing slashes); the head has to be BASE, the
\* tail becomes the guid of an XId wrapped in an XResId. ValueError otherwise.
parse(cls, res_id_string) ==
    LET slashes == {i \in 1..Len(res_id_string) : SubSeq(res_id_string, i, i) = "/"}
        last == IF slashes = {} THEN 0 ELSE CHOOSE i \in slashes : \A j \in slashes : j <= i
        others == {i \in 1..last : SubSeq(res_id_string, i, i) /= "/"}
        stop == IF others = {} THEN last ELSE CHOOSE i \in others : \A j \in others : j <= i
        head == SubSeq(res_id_string, 1, stop)
        tail == SubSeq(res_id_string, last + 1, Len(res_id_string))
    IN  IF BASE(cls) = head
        THEN Return([kind |-> "ResId", cls |-> cls, base |-> BASE(cls), guid |-> try_uuid(tail)])
        ELSE [raised |-> TRUE, value |-> NoObject]

\* parse_res_id(resid): the first class whose BASE the string starts with
\* parses it; ValueError("Unknown type") when there is none.
parse_res_id(resid_) ==
    LET matching == {i \in 1..Len(ResIdClasses) : matches(ResIdClasses[i], resid_)}
    IN  IF matching = {} THEN [raised |-> TRUE, value |-> NoObject]
        ELSE parse(ResIdClasses[CHOOSE i \in matching : \A j \in matching : i <= j], resid_)

\* obj.as_resid(): a method of the TypedMdbId classes (str(XResId(self)));
\* ResId and its subclasses define __str__ and id() only, so the call on one
\* of them raises AttributeError.
as_resid(obj) ==
    IF obj.kind = "TypedMdbId" THEN Return(obj.base \o "/" \o obj.guid)
    ELSE [raised |-> TRUE, value |-> None]

\* The strings handed to parse_res_id: a base, a slash and a guid, with the
\* bases of the twelve classes and one of no class, and guids in canonical
\* form, in capitals, without hyphens and not a UUID at all.
ResidStrings ==
    {b \o "/" \o g :
        b \in {BASE(ResIdClasses[i]) : i \in 1..Len(ResIdClasses)} \cup {"http://id.nrk.no/2016/mdb/clip"},
        g \in {"49686e33-ab3e-4240-a86e-33ab3e224002", "49686E33-AB3E-4240-A86E-33AB3E224002",
               "49686e33ab3e4240a86e33ab3e224002", "abc"}}

IdInit ==
    /\ resid \in ResidStrings
    /\ parsed = NotParsed
    /\ DifferIdle
    /\ FixupIdle
    /\ ApplyIdle
    /\ ElimIdle
    /\ FunctionsIdle

\* meo = parse_res_id(sut)
ParseResId ==
    /\ parsed.call = "none"
    /\ \E r \in {parse_res_id(resid)} :
           parsed' = [call |-> "parse_res_id", raised |-> r.raised, obj |-> r.value, text |-> None]
    /\ UNCHANGED <<resid, differVars, fixupVars, applyVars, elimVars, functionVars>>

\* meo.as_resid(), on the object parse_res_id has returned
AsResid ==
    /\ parsed.call = "parse_res_id"
    /\ ~parsed.raised
    /\ \E r \in {as_resid(parsed.obj)} :
           parsed' = [call |-> "as_resid", raised |-> r.raised, obj |-> parsed.obj, text |-> r.value]
    /\ UNCHANGED <<resid, differVars, fixupVars, applyVars, elimVars, functionVars>>

IdNext == ParseResId \/ AsResid

IdSpec == IdInit /\ [][IdNext]_vars

\* ----------------------------------------------------------- diff_functions

\* Truthiness of the value FieldDiffResult.has_diff returns.
FieldDiffResult_has_diff(r) == r.modified.truthy \/ r.added.truthy \/ r.removed.truthy

\* Truthiness of the value FieldDiffResult.has_add_modify_diff returns.
FieldDiffResult_has_add_modify_diff(r) == r.modified.truthy \/ r.added.truthy

\* attribute_change that reports the original value of a modified key
attribute_change_original(original, modified_, key_) ==
    LET o == original.attrs
        m == modified_.attrs
        Value(v) == Py(v, IF v.t = "str" THEN v.s /= "" ELSE v.n /= 0)
    IN  IF key_ \in DOMAIN o /\ key_ \notin DOMAIN m
        THEN FieldDiffResult(PyNone, PyNone, Value(o[key_]), key_)
        ELSE IF key_ \notin DOMAIN o /\ key_ \in DOMAIN m
        THEN FieldDiffResult(Value(m[key_]), PyNone, PyNone, key_)
        ELSE IF key_ \in DOMAIN o /\ key_ \in DOMAIN m /\ ~PyEq(m[key_], o[key_])
        THEN FieldDiffResult(PyNone, Value(o[key_]), PyNone, key_)
        ELSE unchanged(key_)

\* attribute_change(original, modified, key), on the scalar keys of the two
\* records
attribute_change(original, modified_, key_) ==
    LET o == original.attrs
        m == modified_.attrs
        Value(v) == Py(v, IF v.t = "str" THEN v.s /= "" ELSE v.n /= 0)
    IN  IF key_ \in DOMAIN o /\ key_ \notin DOMAIN m
        THEN FieldDiffResult(PyNone, PyNone, Value(o[key_]), key_)
        ELSE IF key_ \notin DOMAIN o /\ key_ \in DOMAIN m
        THEN FieldDiffResult(Value(m[key_]), PyNone, PyNone, key_)
        ELSE IF key_ \in DOMAIN o /\ key_ \in DOMAIN m /\ ~PyEq(m[key_], o[key_])
        THEN FieldDiffResult(PyNone, Value(m[key_]), PyNone, key_)
        ELSE unchanged(key_)

\* categories_changes(existing, modified) with the default predicates
\* (__category_reference_equals on resId, __category_value_equals on title).
\* A category is the dict of its keys and a list entry is <<category>> or <<>>
\* for None; the test that decides whether modified_items is returned is
\* has_valued_element(modified), on the modified record: iterating a dict
\* gives its keys, so it holds when the record has a (non-empty) key.
categories_changes(existing_, modified_) ==
    LET get(d, k) == IF k \in DOMAIN d THEN d[k] ELSE None
        reference_equals(e, m) == get(e, "resId") = get(m, "resId")
        value_equals(e, m) == get(e, "title") = get(m, "title")
        updated(ex, m) == reference_equals(ex, m) /\ ~value_equals(ex, m)
        existing_collection == existing_.categories
        modified_collection == modified_.categories
        unmatched == SelectSeq(modified_collection,
                         LAMBDA c: \A i \in 1..Len(existing_collection) :
                                       ~reference_equals(existing_collection[i], c))
        added_ == Comprehension(unmatched, [i \in 1..Len(unmatched) |-> Some(unmatched[i])])
        modified_items_ ==
            Comprehension(existing_collection,
                [i \in 1..Len(existing_collection) |->
                    LET found == SelectSeq(modified_collection,
                                     LAMBDA cat: updated(cat, existing_collection[i]))
                    IN  IF found /= <<>> THEN Some(found[1]) ELSE NoneEntry])
        removed_ ==
            Comprehension(existing_collection,
                [i \in 1..Len(existing_collection) |->
                    IF \A j \in 1..Len(modified_collection) :
                           ~reference_equals(modified_collection[j], existing_collection[i])
                    THEN Some(existing_collection[i]) ELSE NoneEntry])
        has_valued(coll) == \E i \in 1..Len(coll) : coll[i] /= NoneEntry
        keys == (DOMAIN modified_.attrs) \cup
                (IF modified_collection /= <<>> THEN {"categories"} ELSE {}) \cup
                (IF modified_.illustration /= <<>> THEN {"illustration"} ELSE {})
    IN  FieldDiffResult(IF has_valued(added_) THEN Py(added_, TRUE) ELSE PyNone,
                        IF keys /= {} THEN Py(modified_items_, modified_items_ /= <<>>) ELSE PyNone,
                        IF has_valued(removed_) THEN Py(removed_, TRUE) ELSE PyNone,
                        "categories")

\* illustration_changes(existing, modified). The illustration of a record is
\* <<image>>, or <<>> when the record has none (get(field_name, {})); an image
\* is the dict of its keys; its illustrationAttributes are <<attrs>>, and
\* get("illustrationAttributes") of an image without the key is None, <<>>.
illustration_changes(existing_, modified_) ==
    LET field_name == "illustration"
        existing_image == existing_.illustration
        modified_image == modified_.illustration
        identifier(image) == IF "identifier" \in DOMAIN image[1] THEN image[1].identifier ELSE None
        attrs(image) == IF "illustrationAttributes" \in DOMAIN image[1]
                        THEN image[1].illustrationAttributes ELSE NoneEntry
        truthy(wrapped) == wrapped /= <<>> /\ DOMAIN wrapped[1] /= {}
        value(wrapped) == IF wrapped = <<>> THEN PyNone ELSE Py(wrapped[1], truthy(wrapped))
        with_modified(modification) == FieldDiffResult(PyNone, modification, PyNone, field_name)
    IN  IF ~truthy(existing_image) /\ truthy(modified_image)
        THEN FieldDiffResult(value(modified_image), PyNone, PyNone, field_name)
        ELSE IF truthy(existing_image) /\ ~truthy(modified_image)
        THEN FieldDiffResult(PyNone, PyNone, value(existing_image), field_name)
        ELSE IF ~truthy(existing_image) THEN unchanged(field_name)
        ELSE IF identifier(existing_image) /= identifier(modified_image)
        THEN with_modified(value(modified_image))
        ELSE LET existing_attrs == attrs(existing_image)
                 modified_attrs == attrs(modified_image)
             IN  IF ~truthy(existing_attrs) /\ truthy(modified_attrs)
                 THEN with_modified(value(modified_attrs))
                 ELSE IF truthy(existing_attrs) /\ ~truthy(modified_attrs)
                 THEN with_modified(value(modified_attrs))
                 ELSE IF existing_attrs /= modified_attrs
                 THEN with_modified(value(modified_image))
                 ELSE unchanged(field_name)

\* Two records handed to the functions of diff_functions: two records of
\* scalars, two records of categories (with or without a title of their own),
\* or two records with or without an illustration.
FunctionsInit ==
    LET NoCategories == <<>>
        NoIllustration == <<>>
        Of(a, c, i) == [attrs |-> a, categories |-> c, illustration |-> i]
        Categories == {[resId |-> "c1"], [resId |-> "c2"], [resId |-> "c2", title |-> "ol"]}
        Titles == {NoEntries, [k \in {"title"} |-> Str("foo")]}
        Attributes == {[k \in {} |-> ""],
                       [cropOffsetX |-> "0.09"], [cropOffsetX |-> "3"],
                       [cropOffsetX |-> "0.09", cropWidth |-> "0.91"]}
        Images == {[identifier |-> i] : i \in {"_iXhb8d", "badsk8ter"}} \cup
                  {[identifier |-> i, illustrationAttributes |-> Some(a)] :
                      i \in {"_iXhb8d", "badsk8ter"}, a \in Attributes}
        Illustrations == {NoIllustration} \cup {Some(image) : image \in Images}
    IN  /\ \/ \E a \in AttrRecords, b \in AttrRecords :
                /\ existing = Of(a, NoCategories, NoIllustration)
                /\ modified = Of(b, NoCategories, NoIllustration)
           \/ \E a \in Titles, b \in Titles :
                \E x \in SeqsUpTo(Categories, MaxItems), y \in SeqsUpTo(Categories, MaxItems) :
                    /\ existing = Of(a, x, NoIllustration)
                    /\ modified = Of(b, y, NoIllustration)
           \/ \E x \in Illustrations, y \in Illustrations :
                /\ existing = Of(NoEntries, NoCategories, x)
                /\ modified = Of(NoEntries, NoCategories, y)
        /\ comparators = DefaultComparators
        /\ ignorables = DefaultIgnorables
        /\ diff = NewDiff
        /\ calls = 0
        /\ FixupIdle
        /\ ApplyIdle
        /\ ElimIdle
        /\ FunctionsIdle
        /\ IdIdle

\* changes = attribute_change(original, modified, key)
AttributeChange ==
    /\ \E key_ \in AttrKeys : result' = attribute_change(existing, modified, key_)
    /\ UNCHANGED <<differVars, fixupVars, applyVars, elimVars, explained, idVars>>

\* changes = categories_changes(original, modified)
CategoriesChanges ==
    /\ result' = categories_changes(existing, modified)
    /\ UNCHANGED <<differVars, fixupVars, applyVars, elimVars, explained, idVars>>

\* changes = illustration_changes(original, modified)
IllustrationChanges ==
    /\ result' = illustration_changes(existing, modified)
    /\ UNCHANGED <<differVars, fixupVars, applyVars, elimVars, explained, idVars>>

FunctionsNext == AttributeChange \/ CategoriesChanges \/ IllustrationChanges

FunctionsSpec == FunctionsInit /\ [][FunctionsNext]_vars

\* ---------------------------------------------------------------- rendering

\* res.strip(", "): the leading and trailing commas and spaces are removed.
strip(res) ==
    LET kept == {i \in 1..Len(res) : SubSeq(res, i, i) \notin {",", " "}}
    IN  IF kept = {} THEN ""
        ELSE SubSeq(res, CHOOSE i \in kept : \A j \in kept : i <= j,
                         CHOOSE i \in kept : \A j \in kept : j <= i)

\* Diff.explain_contributor_change(contributor), on a list entry. An item is
\* the dict of its present keys, each value <<v>> or <<>> for null. get() on
\* a null contact or role raises AttributeError, and a null title or resId
\* raises TypeError in the concatenation.
explain_contributor_change(contributor) ==
    LET get(d, k, default) == IF k \in DOMAIN d THEN d[k] ELSE default
        empty == [k \in {} |-> NoneEntry]
    IN  IF contributor = NoneEntry \/ DOMAIN contributor[1] = {} THEN Return("")
        ELSE LET contact == get(contributor[1], "contact", Some(empty))
                 role == get(contributor[1], "role", Some(empty))
             IN  IF contact = NoneEntry THEN [raised |-> TRUE, value |-> ""]
                 ELSE IF get(contact[1], "title", Some("")) = NoneEntry
                 THEN [raised |-> TRUE, value |-> ""]
                 ELSE IF role = NoneEntry THEN [raised |-> TRUE, value |-> ""]
                 ELSE IF get(role[1], "resId", Some("")) = NoneEntry
                 THEN [raised |-> TRUE, value |-> ""]
                 ELSE Return(get(contact[1], "title", Some(""))[1] \o " as " \o
                             get(role[1], "resId", Some(""))[1])

\* Diff.explain_contributor_changes
explain_contributor_changes(d) ==
    LET added == GetList(d.Added.colls, "contributors")
        removed == GetList(d.Removed.colls, "contributors")
        joined(list) ==
            LET join[i \in 0..Len(list)] ==
                    IF i = 0 THEN ""
                    ELSE join[i - 1] \o (IF i > 1 THEN ", " ELSE "") \o
                         explain_contributor_change(list[i]).value
            IN  join[Len(list)]
        raises(list) == \E i \in 1..Len(list) : explain_contributor_change(list[i]).raised
        res == (IF added /= <<>> THEN "Added: " \o joined(added) ELSE "") \o
               (IF removed /= <<>> THEN " Removed: " \o joined(removed) ELSE "")
    IN  IF raises(added) \/ raises(removed) THEN [raised |-> TRUE, value |-> ""]
        ELSE Return(IF strip(res) /= "" THEN strip(res) \o "\n" ELSE "")

\* Diff.explain_diff_short. The keys of a mapping are joined in the order
\* calculate() writes them: the scalar keys, then the collections.
explain_diff_short(d) ==
    LET order == <<"title", "baz", "fizz", "resId",
                   "contributors", "categories", "subjects", "spatials">>
        keys(mapping) ==
            LET present == (DOMAIN mapping.attrs) \cup (DOMAIN mapping.colls)
                join[i \in 0..Len(order)] ==
                    IF i = 0 THEN ""
                    ELSE IF order[i] \notin present THEN join[i - 1]
                    ELSE join[i - 1] \o (IF join[i - 1] /= "" THEN " " ELSE "") \o order[i]
            IN  join[Len(order)]
        changes == explain_contributor_changes(d)
    IN  IF changes.raised THEN changes
        ELSE Return(strip(changes.value \o
                          (IF ~IsEmptyMapping(d.Added) THEN "Added: " \o keys(d.Added) ELSE "") \o
                          (IF ~IsEmptyMapping(d.Modified)
                           THEN ", Modified: " \o keys(d.Modified) ELSE "") \o
                          (IF ~IsEmptyMapping(d.Removed)
                           THEN ", Removed: " \o keys(d.Removed) ELSE "")))

\* FieldDiffResult.__print_it(item), on a truthy item: the value of the key
\* name or title when the item has it (null included), else the contact's
\* title with the role, else str(item). The value is <<text>>, or <<>> for
\* None.
print_it(item) ==
    LET get(d, k, default) == IF k \in DOMAIN d THEN d[k] ELSE default
        empty == [k \in {} |-> NoneEntry]
        truthy(text) == text /= NoneEntry /\ text /= Some("")
        repr(v) == IF v = NoneEntry THEN "None" ELSE "'" \o v[1] \o "'"
        str_dict(dict_, order) ==
            LET join[i \in 0..Len(order)] ==
                    IF i = 0 THEN ""
                    ELSE IF order[i] \notin DOMAIN dict_ THEN join[i - 1]
                    ELSE join[i - 1] \o (IF join[i - 1] /= "" THEN ", " ELSE "") \o
                         "'" \o order[i] \o "': " \o repr(dict_[order[i]])
            IN  "{" \o join[Len(order)] \o "}"
        str_inner(v) == IF v = NoneEntry THEN v ELSE Some(str_dict(v[1], <<"title", "resId">>))
        str_item ==
            LET inner == [k \in DOMAIN item |-> str_inner(item[k])]
                join[i \in 0..2] ==
                    IF i = 0 THEN ""
                    ELSE LET k == <<"contact", "role">>[i]
                         IN  IF k \notin DOMAIN item THEN join[i - 1]
                             ELSE join[i - 1] \o (IF join[i - 1] /= "" THEN ", " ELSE "") \o
                                  "'" \o k \o "': " \o inner[k][1]
            IN  "{" \o join[2] \o "}"
    IN  IF "name" \in DOMAIN item THEN Return(item["name"])
        ELSE IF "title" \in DOMAIN item THEN Return(item["title"])
        ELSE LET contact == get(item, "contact", Some(empty))
                 role_obj == get(item, "role", Some(empty))
             IN  IF contact = NoneEntry \/ role_obj = NoneEntry
                 THEN [raised |-> TRUE, value |-> NoneEntry]
                 ELSE LET title == get(contact[1], "title", Some(""))
                          role_str == get(role_obj[1], "title", get(role_obj[1], "resId", Some("")))
                      IN  IF truthy(title)
                          THEN Return(Some(title[1] \o
                                           (IF truthy(role_str) THEN " as " \o role_str[1] ELSE "")))
                          ELSE Return(Some(str_item))

\* FieldDiffResult.explain(). A list held by the result is
\* [t |-> "list", items |-> entries]; every truthy entry of a list gives a
\* line, and concatenating the None __print_it returns raises TypeError; a
\* truthy value that is not a list gives a line naming the field.
explain(r) ==
    LET is_list(item) == item.v[1].t = "list"
        entries(item) == IF item = PyNone \/ ~is_list(item) THEN <<>>
                         ELSE SelectSeq(item.v[1].items,
                                  LAMBDA x: x /= NoneEntry /\ DOMAIN x[1] /= {})
        raises(item) == \E i \in 1..Len(entries(item)) :
                            \/ print_it(entries(item)[i][1]).raised
                            \/ print_it(entries(item)[i][1]).value = NoneEntry
        explain_item(action, item) ==
            IF item = PyNone THEN <<>>
            ELSE IF is_list(item)
            THEN [i \in 1..Len(entries(item)) |->
                     r.field_name \o " " \o action \o ": " \o print_it(entries(item)[i][1]).value[1]]
            ELSE IF item.truthy THEN <<r.field_name \o action \o ": " \o r.field_name>>
            ELSE <<>>
        res == explain_item("added", r.added) \o explain_item("modified", r.modified) \o
               explain_item("removed", r.removed)
        join[i \in 0..Len(res)] ==
            IF i = 0 THEN "" ELSE join[i - 1] \o (IF i > 1 THEN "\n" ELSE "") \o res[i]
    IN  IF raises(r.added) \/ raises(r.modified) \/ raises(r.removed)
        THEN [raised |-> TRUE, value |-> ""]
        ELSE Return(join[Len(res)])

\* A Diff whose Added or Removed contributors hold items of every shape, as
\* calculate() leaves it for two records of which one has no contributors, or
\* a FieldDiffResult holding a list of such items or a scalar.
RenderInit ==
    LET Dicts(K, V) == UNION {[k -> V] : k \in SUBSET K}
        Contacts == {NoneEntry} \cup
                    {Some(c) : c \in Dicts({"title"}, {NoneEntry, Some(""), Some("ole")})}
        Roles == {NoneEntry} \cup
                 {Some(ro) : ro \in Dicts({"resId"}, {NoneEntry, Some("http://authority.nrk.no/role/V23")})
                                    \cup {[title |-> Some("Regi")]}}
        Texts == {NoneEntry, Some("Oslo")}
        With(S, k, V) == S \cup {Put(f, k, v) : f \in S, v \in V}
        Shapes == With(With(With(With({[k \in {} |-> NoneEntry]}, "name", Texts),
                                 "title", Texts), "contact", Contacts), "role", Roles)
        Lists == {<<Some(i)>> : i \in Shapes} \cup
                 {<<NoneEntry, Some([contact |-> Some([title |-> Some("ole")])])>>}
        Plain == {<<>>, <<Some([contact |-> Some([title |-> Some("ole")]),
                                role |-> Some([resId |-> Some("http://authority.nrk.no/role/V23")])])>>}
        Of(list) == IF list = <<>> THEN NoEntries ELSE [k \in {"contributors"} |-> list]
        Titles == {NoEntries, [k \in {"title"} |-> Str("foo")]}
        ListValue(list) == Py([t |-> "list", items |-> list], TRUE)
    IN  /\ \/ /\ \E a \in Lists, b \in Plain, t \in Titles :
                    \/ diff = [Added |-> [attrs |-> t, colls |-> Of(a)],
                               Modified |-> [attrs |-> NoEntries, colls |-> NoEntries],
                               Removed |-> [attrs |-> NoEntries, colls |-> Of(b)]]
                    \/ diff = [Added |-> [attrs |-> NoEntries, colls |-> Of(b)],
                               Modified |-> [attrs |-> t, colls |-> NoEntries],
                               Removed |-> [attrs |-> NoEntries, colls |-> Of(a)]]
              /\ result = unchanged(None)
           \/ /\ diff = NewDiff
              /\ \/ \E a \in Lists :
                       \/ result = FieldDiffResult(ListValue(a), PyNone, PyNone, "contributors")
                       \/ result = FieldDiffResult(PyNone, ListValue(a), PyNone, "contributors")
                       \/ result = FieldDiffResult(PyNone, PyNone, ListValue(a), "contributors")
                 \/ \E a \in {PyNone, Py(Str("a"), TRUE), Py(Str(""), FALSE)},
                       b \in {PyNone, Py(Str("b"), TRUE)} :
                       result = FieldDiffResult(a, PyNone, b, "baz")
        /\ explained = NotExplained
        /\ existing = NoTarget
        /\ modified = NoTarget
        /\ comparators = DefaultComparators
        /\ ignorables = DefaultIgnorables
        /\ calls = 0
        /\ FixupIdle
        /\ ApplyIdle
        /\ ElimIdle
        /\ IdIdle

\* changes.explain()
Explain ==
    /\ explained.call = "none"
    /\ \E r \in {explain(result)} :
           explained' = [call |-> "explain", raised |-> r.raised,
                         text |-> IF r.raised THEN NoneEntry ELSE Some(r.value)]
    /\ UNCHANGED <<differVars, fixupVars, applyVars, elimVars, result, idVars>>

\* diff.explain_contributor_changes()
ExplainContributorChanges ==
    /\ explained.call = "none"
    /\ \E r \in {explain_contributor_changes(diff)} :
           explained' = [call |-> "explain_contributor_changes", raised |-> r.raised,
                         text |-> IF r.raised THEN NoneEntry ELSE Some(r.value)]
    /\ UNCHANGED <<differVars, fixupVars, applyVars, elimVars, result, idVars>>

\* diff.explain_diff_short()
ExplainDiffShort ==
    /\ explained.call = "none"
    /\ \E r \in {explain_diff_short(diff)} :
           explained' = [call |-> "explain_diff_short", raised |-> r.raised,
                         text |-> IF r.raised THEN NoneEntry ELSE Some(r.value)]
    /\ UNCHANGED <<differVars, fixupVars, applyVars, elimVars, result, idVars>>

RenderNext == Explain \/ ExplainContributorChanges \/ ExplainDiffShort

RenderSpec == RenderInit /\ [][RenderNext]_vars

\* ------------------------------------------------------------------- claims

\* The diff returned by the first calculate() of a Differ.
Calculated == calls = 1

AddedList(field) == GetList(diff.Added.colls, field)

RemovedList(field) == GetList(diff.Removed.colls, field)

\* C1: diffing a record against itself with a default-constructed Differ
\* yields a diff whose Added, Modified and Removed are all empty.
C1_Idempotence ==
    (Calculated /\ comparators = DefaultComparators /\ existing = modified) => ~has_diff(diff)

\* C2: a Modified or Removed list that calculate() puts into the diff has
\* exactly len(original[field]) entries, and every non-null entry of Removed
\* at index i equals original[field][i].
C2_PositionalAlignment ==
    Calculated =>
        \A f \in Fields :
            /\ f \in DOMAIN diff.Modified.colls => Len(diff.Modified.colls[f]) = Len(existing[f])
            /\ f \in DOMAIN diff.Removed.colls =>
                  /\ Len(diff.Removed.colls[f]) = Len(existing[f])
                  /\ \A i \in 1..Len(existing[f]) :
                        diff.Removed.colls[f][i] /= NoneEntry =>
                            diff.Removed.colls[f][i] = Some(existing[f][i])

\* A diff with a Modified and a Removed list over an original of two items or
\* more, the Removed list holding both a None and a removed item.
C2_Witness ==
    /\ Calculated
    /\ \E f \in Fields :
          /\ f \in DOMAIN diff.Modified.colls
          /\ f \in DOMAIN diff.Removed.colls
          /\ Len(existing[f]) >= 2
          /\ \E i, j \in 1..Len(existing[f]) :
                diff.Removed.colls[f][i] = NoneEntry /\ diff.Removed.colls[f][j] /= NoneEntry

Entries(list) == {list[i] : i \in 1..Len(list)}

HasTruthy(f, list) == \E i \in 1..Len(list) : Truthy(f, list[i])

\* identity_comparator(o, m) and value_comparator(o, m) of a field, as the
\* Differ is configured.
Identity(f, o, m) == Compare(comparators[f].identity, o, m)

Value(f, o, m) == Compare(comparators[f].value, o, m)

MatchedInOriginal(f, m) == \E i \in 1..Len(existing[f]) : Identity(f, existing[f][i], m)

MatchedInModified(f, o) == \E j \in 1..Len(modified[f]) : Identity(f, o, modified[f][j])

\* The items of modified[field] without an identity match in original[field],
\* in modified order.
ExpectedAdded(f) ==
    LET keep == SelectSeq(modified[f], LAMBDA m: ~MatchedInOriginal(f, m))
    IN  IF keep = <<>> THEN <<>> ELSE [i \in 1..Len(keep) |-> Some(keep[i])]

\* C3, as claimed: Added[field] is exactly the sequence of the items of
\* modified[field] that have no identity match in original[field].
C3_AddedExactly ==
    Calculated => \A f \in Fields : AddedList(f) = ExpectedAdded(f)

\* C3, amended: Added[field] is that sequence when it holds a truthy item, and
\* is absent when it holds none (no such item, or only empty records).
C3_AddedUnlessNoTruthy ==
    Calculated =>
        \A f \in Fields :
            IF HasTruthy(f, ExpectedAdded(f))
            THEN f \in DOMAIN diff.Added.colls /\ diff.Added.colls[f] = ExpectedAdded(f)
            ELSE f \notin DOMAIN diff.Added.colls

\* A diff that reports an added item and leaves out a modified item that has
\* an identity match in original.
C3_Witness ==
    /\ Calculated
    /\ \E f \in Fields :
          /\ f \in DOMAIN diff.Added.colls
          /\ Len(diff.Added.colls[f]) < Len(modified[f])
          /\ existing[f] /= <<>>

\* The first item of modified[field] that identity-matches o with a different
\* value, or None.
FirstUpdate(f, o) ==
    LET hits == {j \in 1..Len(modified[f]) :
                    Identity(f, o, modified[f][j]) /\ ~Value(f, o, modified[f][j])}
    IN  IF hits = {} THEN NoneEntry
        ELSE Some(modified[f][CHOOSE j \in hits : \A h \in hits : j <= h])

ExpectedModified(f) ==
    IF existing[f] = <<>> THEN <<>>
    ELSE [i \in 1..Len(existing[f]) |-> FirstUpdate(f, existing[f][i])]

\* C4: the Modified list holds at index i the first item m of modified[field]
\* with identity_comparator(original[i], m) and not value_comparator(original[i], m),
\* and None when there is none (a list without a truthy entry is left out).
C4_ModifiedStep ==
    Calculated =>
        \A f \in Fields :
            IF f \in DOMAIN diff.Modified.colls
            THEN diff.Modified.colls[f] = ExpectedModified(f)
            ELSE ~HasTruthy(f, ExpectedModified(f))

ExpectedRemoved(f) ==
    IF existing[f] = <<>> THEN <<>>
    ELSE [i \in 1..Len(existing[f]) |->
             IF MatchedInModified(f, existing[f][i]) THEN NoneEntry ELSE Some(existing[f][i])]

\* C5: the Removed list holds original[i] at index i if no item c of
\* modified[field] satisfies identity_comparator(original[i], c), and None
\* otherwise (a list without a truthy entry is left out).
C5_RemovedStep ==
    Calculated =>
        \A f \in Fields :
            IF f \in DOMAIN diff.Removed.colls
            THEN diff.Removed.colls[f] = ExpectedRemoved(f)
            ELSE ~HasTruthy(f, ExpectedRemoved(f))

IgnoreSet == ignorables \cup {"resId", "created", "lastUpdated"}

IsScalar(v) == v.t \in {"str", "int", "float"}

\* Two scalars differ: numbers by their value, strings by their text.
Differs(a, b) == IF a.t = "str" \/ b.t = "str" THEN a /= b ELSE a.n /= b.n

InMapping(mapping, k) == k \in DOMAIN mapping.attrs

\* C6: a key outside the ignore set whose values are strings, integers or
\* floats is Modified (to the modified value) when it is in both records with
\* different values, Added when only in modified, Removed (with the original
\* value) when only in original, in no mapping when equal in both, and never in
\* two mappings.
C6_ScalarClassification ==
    Calculated =>
        \A k \in AttrKeys \ IgnoreSet :
            LET o == existing.attrs
                m == modified.attrs
                inO == k \in DOMAIN o
                inM == k \in DOMAIN m
            IN  ((inO => IsScalar(o[k])) /\ (inM => IsScalar(m[k]))) =>
                    /\ (inO /\ inM /\ Differs(o[k], m[k])) =>
                          /\ InMapping(diff.Modified, k) /\ diff.Modified.attrs[k] = m[k]
                          /\ ~InMapping(diff.Added, k) /\ ~InMapping(diff.Removed, k)
                    /\ (~inO /\ inM) =>
                          /\ InMapping(diff.Added, k) /\ diff.Added.attrs[k] = m[k]
                          /\ ~InMapping(diff.Modified, k) /\ ~InMapping(diff.Removed, k)
                    /\ (inO /\ ~inM) =>
                          /\ InMapping(diff.Removed, k) /\ diff.Removed.attrs[k] = o[k]
                          /\ ~InMapping(diff.Added, k) /\ ~InMapping(diff.Modified, k)
                    /\ ((inO /\ inM /\ ~Differs(o[k], m[k])) \/ (~inO /\ ~inM)) =>
                          /\ ~InMapping(diff.Added, k)
                          /\ ~InMapping(diff.Modified, k)
                          /\ ~InMapping(diff.Removed, k)

\* A diff with a modified key and an added key, of records that also hold an
\* ignored key.
C6_Witness ==
    /\ Calculated
    /\ InMapping(diff.Modified, "baz")
    /\ InMapping(diff.Added, "fizz")
    /\ "title" \in DOMAIN existing.attrs

\* C7: with a default-constructed Differ, a string field title that is in
\* original and not in modified is reported as Removed[title] with its
\* original value.
C7_TitleRemoved ==
    (/\ Calculated
     /\ "title" \in DOMAIN existing.attrs
     /\ "title" \notin DOMAIN modified.attrs) =>
        /\ InMapping(diff.Removed, "title")
        /\ diff.Removed.attrs["title"] = existing.attrs["title"]

\* C8: every value attribute_changes stores in Added, Modified or Removed is
\* a string, an integer or a float.
C8_OnlyScalarsReported ==
    Calculated =>
        \A mapping \in {diff.Added, diff.Modified, diff.Removed} :
            \A k \in DOMAIN mapping.attrs : IsScalar(mapping.attrs[k])

SamePredicate(f) == comparators[f].identity = comparators[f].value

\* The item at index i of original[field] has changed in place: modified[field]
\* holds another item at i, the original item has no match left in modified
\* and the item that took its place has no match in original.
ChangedInPlace(f, i) ==
    /\ i <= Len(modified[f])
    /\ ~MatchedInModified(f, existing[f][i])
    /\ ~MatchedInOriginal(f, modified[f][i])

PrefersResId(o, m) ==
    IF TruthyStr(o.resId) THEN o.resId = m.resId ELSE are_same_spatial(o, m)

\* C10: with a default-constructed Differ, a modified spatial that matches no
\* original spatial by resId (or, for an original without resId, by value) is
\* reported in Added[spatials].
C10_SpatialIdentityPrefersResId ==
    (Calculated /\ comparators = DefaultComparators) =>
        \A j \in 1..Len(modified.spatials) :
            (\A i \in 1..Len(existing.spatials) :
                 ~PrefersResId(existing.spatials[i], modified.spatials[j])) =>
                Some(modified.spatials[j]) \in Entries(AddedList("spatials"))

\* C11: calculate() never mutates its inputs: a step that performs it leaves
\* the original and the modified record (every collection and item, in
\* order), the comparators and the ignore set as they were; only the Diff is
\* written.
C11_InputsNotMutated ==
    [][calls' /= calls =>
          /\ existing' = existing
          /\ modified' = modified
          /\ comparators' = comparators
          /\ ignorables' = ignorables]_vars

\* calculate() has run on two records with a populated collection and has
\* put items of both records into the diff.
C11_Witness ==
    /\ calls >= 1
    /\ \E f \in Fields :
          /\ Len(existing[f]) = MaxItems
          /\ Len(modified[f]) = MaxItems
          /\ f \in DOMAIN diff.Added.colls
          /\ f \in DOMAIN diff.Removed.colls

\* C12 (its part on lists): once calculate() has run, and after pack(), no
\* field of Added, Modified or Removed maps to a list without a truthy
\* element.
C12_NoListWithoutTruthy ==
    calls >= 1 =>
        \A mapping \in {diff.Added, diff.Modified, diff.Removed} :
            /\ \A k \in DOMAIN mapping.attrs :
                  mapping.attrs[k].t = "list" => TruthyElements(mapping.attrs[k]) > 0
            /\ \A f \in DOMAIN mapping.colls : HasTruthy(f, mapping.colls[f])

\* The keys of one of the three mappings.
Keys(mapping) == (DOMAIN mapping.attrs) \cup (DOMAIN mapping.colls)

\* C13: in every state of a Diff, has_diff() is truthy iff one of Added,
\* Modified, Removed has a key; has_add_modify_diff() iff Added or Modified has
\* one; has_removals_only() iff Added and Modified have none and Removed has
\* one, so that it implies has_diff and excludes has_add_modify_diff.
C13_DiffPredicates ==
    LET a == Cardinality(Keys(diff.Added))
        m == Cardinality(Keys(diff.Modified))
        r == Cardinality(Keys(diff.Removed))
    IN  /\ has_diff(diff) <=> (a + m + r > 0)
        /\ has_add_modify_diff(diff) <=> (a + m > 0)
        /\ has_removals_only(diff) <=> (a = 0 /\ m = 0 /\ r > 0)
        /\ has_removals_only(diff) => (has_diff(diff) /\ ~has_add_modify_diff(diff))

\* A calculated diff with removals only.
C13_Witness ==
    /\ calls >= 1
    /\ Keys(diff.Added) = {}
    /\ Keys(diff.Modified) = {}
    /\ Keys(diff.Removed) /= {}
    /\ has_removals_only(diff)
    /\ has_diff(diff)
    /\ ~has_add_modify_diff(diff)

\* The indices of a list of keys that hold the first occurrence of their key.
KeptIndices(ks) == {i \in 1..Len(ks) : \A j \in 1..(i - 1) : ks[j] /= ks[i]}

\* The p-th smallest element of a set of indices.
Nth(S, p) == CHOOSE i \in S : Cardinality({j \in S : j <= i}) = p

\* The subsequence of list made of the first item of each key, ks[i] being
\* the key of list[i].
FirstPerKey(list, ks) ==
    IF list = <<>> THEN <<>>
    ELSE [p \in 1..Cardinality(KeptIndices(ks)) |-> list[Nth(KeptIndices(ks), p)]]

\* The derived keys of a list of contributors.
ContributorKeys(list) == IF list = <<>> THEN <<>> ELSE [i \in 1..Len(list) |-> key(list[i]).value]

\* C14: when remove_duplicates returns, the contributors it leaves are the
\* first contributor of each distinct derived key, in original order; no two
\* of them share a key, every key of the input is represented, and the dedup
\* applied again changes nothing.
C14_KeepsFirstPerKey ==
    (outcome = "returned" /\ pe_in.contributors /= NoneEntry) =>
        LET in == pe_in.contributors[1]
            out == pe.contributors[1]
            kin == ContributorKeys(in)
            kout == ContributorKeys(out)
        IN  /\ out = FirstPerKey(in, kin)
            /\ \A p, q \in 1..Len(out) : p /= q => kout[p] /= kout[q]
            /\ \A i \in 1..Len(in) : \E p \in 1..Len(out) : kout[p] = kin[i]
            /\ squash_by_key(out, "key") = Return(out)
            /\ remove_duplicates(pe) = [raised |-> FALSE, pe |-> pe]

\* Three contributors, the third with the key of the first and another
\* content, have been cut down to the first two.
C14_Witness ==
    /\ outcome = "returned"
    /\ pe_in.contributors /= NoneEntry
    /\ Len(pe_in.contributors[1]) = 3
    /\ pe_in.contributors[1][1] /= pe_in.contributors[1][3]
    /\ key(pe_in.contributors[1][1]) = key(pe_in.contributors[1][3])
    /\ key(pe_in.contributors[1][1]) /= key(pe_in.contributors[1][2])
    /\ pe.contributors[1] = SubSeq(pe_in.contributors[1], 1, 2)

\* Name, latitude and longitude of a spatial location, a missing one being
\* equal to a missing one only.
SpatialContent(list) ==
    IF list = <<>> THEN <<>>
    ELSE [i \in 1..Len(list) |-> <<list[i].name, list[i].latitude, list[i].longitude>>]

\* C15: when remove_duplicates returns, two items of pe['spatials'] have been
\* collapsed iff they agree on name, latitude and longitude: the spatials left
\* are the first item of each distinct (name, latitude, longitude).
C15_SpatialsByContent ==
    (outcome = "returned" /\ pe_in.spatials /= NoneEntry) =>
        pe.spatials[1] = FirstPerKey(pe_in.spatials[1], SpatialContent(pe_in.spatials[1]))

\* A contributor whose role resId holds the client marker.
ClientGenerated(item) == Contains(GetOr(item.role.resId, ""), "rest_client")

\* C16: remove_duplicates raises iff a contributor of pe has a role resId with
\* the client marker, and when it raises pe is as it was before the call.
C16_GuardRaises ==
    outcome /= "none" =>
        LET marked == /\ pe_in.contributors /= NoneEntry
                      /\ \E i \in 1..Len(pe_in.contributors[1]) :
                            ClientGenerated(pe_in.contributors[1][i])
        IN  /\ (outcome = "raised") <=> marked
            /\ (outcome = "raised") => pe = pe_in

\* The call has raised on a list with two duplicates before the marked
\* contributor, and on a record with two spatial locations.
C16_Witness ==
    /\ outcome = "raised"
    /\ pe_in.contributors /= NoneEntry
    /\ Len(pe_in.contributors[1]) = 3
    /\ pe_in.contributors[1][1] = pe_in.contributors[1][2]
    /\ ClientGenerated(pe_in.contributors[1][3])
    /\ pe.spatials /= NoneEntry
    /\ Len(pe.spatials[1]) = 2
    /\ pe = pe_in

\* The last operation applied, or none.
LastOp == IF ops = <<>> THEN "none" ELSE ops[Len(ops)]

\* C17: after recursive_apply_modifications, for every key of Modified that
\* holds a list the record has at index i the Modified entry where it is
\* truthy and its own former item where it is None (or empty); a scalar
\* Modified value has replaced the value of the record; every other key is
\* as before.
C17_RecursiveApply ==
    LastOp = "recursive_apply_modifications" =>
        LET t0 == before.target
            m == diff.Modified
        IN  /\ \A f \in Fields :
                  IF f \in DOMAIN m.colls
                  THEN /\ Len(target[f]) = Len(t0[f])
                       /\ \A i \in 1..Len(t0[f]) :
                             IF i <= Len(m.colls[f]) /\ Truthy(f, m.colls[f][i])
                             THEN target[f][i] = m.colls[f][i][1]
                             ELSE target[f][i] = t0[f][i]
                  ELSE target[f] = t0[f]
            /\ DOMAIN target.attrs = (DOMAIN t0.attrs) \cup (DOMAIN m.attrs)
            /\ \A k \in DOMAIN target.attrs :
                  target.attrs[k] = IF k \in DOMAIN m.attrs THEN m.attrs[k] ELSE t0.attrs[k]

\* A Modified list with a None and a changed item, and a Modified scalar,
\* have been applied onto a copy of the original record.
C17_Witness ==
    /\ LastOp = "recursive_apply_modifications"
    /\ \/ /\ "contributors" \in DOMAIN diff.Modified.colls
          /\ Len(diff.Modified.colls["contributors"]) = 2
          /\ diff.Modified.colls["contributors"][1] = NoneEntry
          /\ diff.Modified.colls["contributors"][2] /= NoneEntry
          /\ target.contributors[1] = before.target.contributors[1]
          /\ target.contributors[2] /= before.target.contributors[2]
       \/ /\ "baz" \in DOMAIN diff.Modified.attrs
          /\ "fizz" \in DOMAIN before.target.attrs
          /\ target.attrs["baz"] /= before.target.attrs["baz"]

\* C18: after apply_adds, for every key of Added that holds a list the record
\* has its former items in place followed by the added items in Added order
\* (the added items alone when it had none); a scalar Added value is set;
\* every other key is as before.
C18_ApplyAdds ==
    LastOp = "apply_adds" =>
        LET t0 == before.target
            a == diff.Added
        IN  /\ \A f \in Fields :
                  IF f \in DOMAIN a.colls
                  THEN /\ Len(target[f]) = Len(t0[f]) + Len(a.colls[f])
                       /\ \A i \in 1..Len(t0[f]) : target[f][i] = t0[f][i]
                       /\ \A j \in 1..Len(a.colls[f]) :
                             Some(target[f][Len(t0[f]) + j]) = a.colls[f][j]
                  ELSE target[f] = t0[f]
            /\ DOMAIN target.attrs = (DOMAIN t0.attrs) \cup (DOMAIN a.attrs)
            /\ \A k \in DOMAIN target.attrs :
                  target.attrs[k] = IF k \in DOMAIN a.attrs THEN a.attrs[k] ELSE t0.attrs[k]

\* Two added items have been appended to a record that had two items.
C18_Witness ==
    /\ LastOp = "apply_adds"
    /\ \E f \in Fields :
          /\ f \in DOMAIN diff.Added.colls
          /\ Len(diff.Added.colls[f]) = 2
          /\ Len(before.target[f]) = 2
          /\ Len(target[f]) = 4
          /\ target[f][3] /= target[f][4]

\* C19: recursive_apply_modifications followed by apply_adds of the diff of A
\* and B, onto a deep copy of A, yields a record equal to B on the
\* collections and on the top-level scalars outside the ignore set, also when
\* B removed scalars or items that A had.
C19_RoundTrip ==
    (calls = 1 /\ ops = <<"deepcopy", "recursive_apply_modifications", "apply_adds">>) =>
        /\ \A f \in Fields : target[f] = modified[f]
        /\ \A k \in ((DOMAIN target.attrs) \cup (DOMAIN modified.attrs)) \ IgnoreSet :
              /\ k \in DOMAIN target.attrs
              /\ k \in DOMAIN modified.attrs
              /\ target.attrs[k] = modified.attrs[k]

\* C20: after retain_only(fields) every key of Added, Modified and Removed is
\* in fields, and every entry of the former diff whose key is in fields is
\* still there with the value it had.
C20_RetainOnly ==
    LastOp = "retain_only" =>
        \A x \in {"Added", "Modified", "Removed"} :
            /\ Keys(diff[x]) \subseteq fields
            /\ \A k \in (DOMAIN before.diff[x].attrs) \cap fields :
                  k \in DOMAIN diff[x].attrs /\ diff[x].attrs[k] = before.diff[x].attrs[k]
            /\ \A k \in (DOMAIN before.diff[x].colls) \cap fields :
                  k \in DOMAIN diff[x].colls /\ diff[x].colls[k] = before.diff[x].colls[k]

\* retain_only(["title", "baz"]) has dropped the removed key fizz and has
\* kept the modified key baz with its value.
C20_Witness ==
    /\ LastOp = "retain_only"
    /\ fields = {"title", "baz"}
    /\ "fizz" \in DOMAIN before.diff.Removed.attrs
    /\ "baz" \in DOMAIN before.diff.Modified.attrs
    /\ Keys(diff.Removed) = {}
    /\ Keys(diff.Modified) = {"baz"}
    /\ diff.Modified.attrs["baz"] = modified.attrs["baz"]

\* C21: after eliminate_changed_v23() on a calculated diff no entry of a
\* contributor with the role V23 is left in Added, Removed or Modified, and
\* no 'contributors' list is left without a truthy element.
C21_NoV23Left ==
    last_call.op = "eliminate_changed_v23" =>
        \A mapping \in {diff.Added, diff.Removed, diff.Modified} :
            /\ indices_of_contributor(mapping, V23) = {}
            /\ In("contributors", mapping) =>
                   HasTruthy("contributors", mapping.colls["contributors"])

\* C25: after calculate() and any sequence of eliminate_changed_v23(),
\* eliminate_changed_n58() and pack(), Removed['contributors'] and
\* Modified['contributors'], when present, are as long as the original
\* collection, and a non-null Removed entry at index i is the original item
\* at index i.
C25_AlignmentSurvives ==
    calls = 1 =>
        /\ \A mapping \in {diff.Removed, diff.Modified} :
               In("contributors", mapping) =>
                   Len(mapping.colls["contributors"]) = Len(existing.contributors)
        /\ In("contributors", diff.Removed) =>
               \A i \in 1..Len(diff.Removed.colls["contributors"]) :
                   diff.Removed.colls["contributors"][i] /= NoneEntry =>
                       /\ i <= Len(existing.contributors)
                       /\ diff.Removed.colls["contributors"][i] = Some(existing.contributors[i])

\* C30: a call of eliminiate_changed_categories() does not raise, leaves the
\* field 'categories' in none of Added, Modified and Removed, and leaves every
\* other field of the three mappings as it was.
C30_CategoriesEliminated ==
    [][last_call'.op = "eliminiate_changed_categories" =>
          /\ ~last_call'.raised
          /\ diff'.Added = Del(diff.Added, "categories")
          /\ diff'.Modified = Del(diff.Modified, "categories")
          /\ diff'.Removed = Del(diff.Removed, "categories")]_vars

\* C28: with the default comparators, an original item o that keeps a
\* modified item m out of Added (identity_comparator(o, m) holds) is not
\* reported in Removed.
C28_IdentityConsistent ==
    (Calculated /\ comparators = DefaultComparators) =>
        \A f \in Fields :
            \A i \in 1..Len(existing[f]), j \in 1..Len(modified[f]) :
                Identity(f, existing[f][i], modified[f][j]) =>
                    ~(/\ i <= Len(RemovedList(f))
                      /\ RemovedList(f)[i] = Some(existing[f][i]))

\* C29: a second calculate() on the same Differ leaves the diff as the first
\* call returned it: no entry is appended again.
C29_RepeatHarmless ==
    [][(calls = 1 /\ calls' = 2) => diff' = diff]_vars

\* The class of typed ids of a ResId class: XId for XResId.
IdClassOf(cls) == SubSeq(cls, 1, Len(cls) - 5) \o "Id"

\* resid is the base of cls, a slash and a UUID in canonical form.
WellFormed(cls) == resid = BASE(cls) \o "/" \o "49686e33-ab3e-4240-a86e-33ab3e224002"

\* C24: for a well-formed resid string of each of the twelve types,
\* parse_res_id returns the typed id of exactly that type, and as_resid() of
\* that object gives the string back.
C24_ParseRoundTrip ==
    \A i \in 1..Len(ResIdClasses) :
        WellFormed(ResIdClasses[i]) =>
            /\ parsed.call /= "none" =>
                   /\ ~parsed.raised
                   /\ parsed.obj.kind = "TypedMdbId"
                   /\ parsed.obj.cls = IdClassOf(ResIdClasses[i])
            /\ parsed.call = "as_resid" => (~parsed.raised /\ parsed.text = resid)

\* C23: attribute_change(original, modified, key) leaves at most one of
\* added, modified and removed non-null: removed is the original value of a
\* key that only original has, added the modified value of a key that only
\* modified has, modified the modified value of a key both have with
\* different values, and all three are None otherwise.
C23_AttributeChange ==
    result.field_name \in AttrKeys =>
        LET k == result.field_name
            o == existing.attrs
            m == modified.attrs
            values == <<result.added.v, result.modified.v, result.removed.v>>
        IN  /\ Cardinality({i \in 1..3 : values[i] /= <<>>}) <= 1
            /\ (k \in DOMAIN o /\ k \notin DOMAIN m) => values = <<<<>>, <<>>, <<o[k]>>>>
            /\ (k \notin DOMAIN o /\ k \in DOMAIN m) => values = <<<<m[k]>>, <<>>, <<>>>>
            /\ (k \in DOMAIN o /\ k \in DOMAIN m /\ ~PyEq(m[k], o[k])) =>
                   values = <<<<>>, <<m[k]>>, <<>>>>
            /\ (k \in DOMAIN o /\ k \in DOMAIN m /\ PyEq(m[k], o[k])) =>
                   values = <<<<>>, <<>>, <<>>>>
            /\ (k \notin DOMAIN o /\ k \notin DOMAIN m) => values = <<<<>>, <<>>, <<>>>>

\* attribute_change has reported the key baz, which both records hold with
\* different values, as modified.
C23_Witness ==
    /\ result.field_name = "baz"
    /\ "baz" \in DOMAIN existing.attrs
    /\ "baz" \in DOMAIN modified.attrs
    /\ existing.attrs["baz"] = Str("bazz")
    /\ modified.attrs["baz"] = Str("bazt")
    /\ result.modified.v = <<Str("bazt")>>
    /\ result.added.v = <<>>
    /\ result.removed.v = <<>>

\* C26: categories_changes gives modified = None when no existing category
\* has a modified category of the same resId and another title; on a record
\* with categories compared with itself has_diff() and has_add_modify_diff()
\* are falsy.
C26_NoModificationReported ==
    result.field_name = "categories" =>
        LET title(c) == IF "title" \in DOMAIN c THEN c.title ELSE None
            changed == \E i \in 1..Len(existing.categories), j \in 1..Len(modified.categories) :
                           /\ existing.categories[i].resId = modified.categories[j].resId
                           /\ title(existing.categories[i]) /= title(modified.categories[j])
        IN  /\ ~changed => result.modified.v = <<>>
            /\ (existing = modified /\ existing.categories /= <<>>) =>
                   /\ ~FieldDiffResult_has_diff(result)
                   /\ ~FieldDiffResult_has_add_modify_diff(result)

\* C27: on two records that have an illustration, illustration_changes gives
\* a truthy modified exactly when the illustrations differ in identifier or
\* in illustrationAttributes, and no diff when they are equal.
C27_IllustrationChanges ==
    (/\ result.field_name = "illustration"
     /\ existing.illustration /= <<>>
     /\ modified.illustration /= <<>>) =>
        LET e == existing.illustration[1]
            m == modified.illustration[1]
            attributes(image) == IF "illustrationAttributes" \in DOMAIN image
                                 THEN image.illustrationAttributes ELSE NoneEntry
            differ == e.identifier /= m.identifier \/ attributes(e) /= attributes(m)
        IN  /\ result.modified.truthy <=> differ
            /\ FieldDiffResult_has_diff(result) <=> differ

\* C22: rendering never raises on a shape mismatch: whatever keys the changed
\* items lack and whatever values are null, explain_diff_short,
\* explain_contributor_changes and FieldDiffResult.explain return a string.
C22_RenderingNeverRaises ==
    explained.call /= "none" => ~explained.raised /\ explained.text /= NoneEntry

====
